---- MODULE Spec2Model ----
(***************************************************************************)
(* Model of the chayns auto-registration service:                          *)
(*   src/src/autoregister.py    AutoRegister, handle_autoregister          *)
(*   src/src/duckmail_client.py DuckMailClient, LinkExtractor, MailPoller  *)
(*                                                                         *)
(* Seven specifications share the module:                                  *)
(*   Spec      requests entering handle_autoregister and the run each      *)
(*             admitted request executes;                                  *)
(*   SpecLive  the same runs, where an admitted request keeps taking its   *)
(*             steps (every external call returns or raises);              *)
(*   SpecLink  LinkExtractor.extract_confirmation_link applied to message  *)
(*             details drawn from a bounded set;                           *)
(*   SpecPoll  MailPoller.wait_for_verification_email and the run's own    *)
(*             polling loop reading the same mailbox;                      *)
(*   SpecResolve MailPoller.get_confirmation_link and the run's own        *)
(*             polling loop on one mailbox with two verification mails;    *)
(*   SpecClient a DuckMailClient called in any order, next to one run;     *)
(*   SpecMatch DuckMailClient.is_verification_email applied to message     *)
(*             summaries, pattern lists and whitelists drawn from bounded  *)
(*             sets.                                                       *)
(* Python strings are TLA+ strings; an Optional[str] is <<>> (None) or     *)
(* <<s>>.                                                                  *)
(***************************************************************************)
EXTENDS Integers, Sequences, FiniteSets, TLC

VARIABLES lock, run, lx, mp, dc, ve

vars == <<lock, run, lx, mp, dc, ve>>

None == <<>>

Some(x) == <<x>>

(***************************************************************************)
(* Python str operations used by the code.                                 *)
(***************************************************************************)
Char(s, i) == SubSeq(s, i, i)

StartsWith(s, p) == Len(s) >= Len(p) /\ SubSeq(s, 1, Len(p)) = p

\* p in s
Contains(s, p) == \E i \in 1..(Len(s) - Len(p) + 1) : SubSeq(s, i, i + Len(p) - 1) = p

\* s.find(c) for a one-character c; 0 when absent
Find(s, c) == IF \E i \in 1..Len(s) : Char(s, i) = c THEN CHOOSE i \in 1..Len(s) : Char(s, i) = c /\ \A j \in 1..(i - 1) : Char(s, j) # c ELSE 0

LowerChar(c) == IF Find("ABCDEFGHIJKLMNOPQRSTUVWXYZ", c) = 0 THEN c ELSE Char("abcdefghijklmnopqrstuvwxyz", Find("ABCDEFGHIJKLMNOPQRSTUVWXYZ", c))

RECURSIVE Lower(_)
\* s.lower()
Lower(s) == IF s = "" THEN "" ELSE LowerChar(Char(s, 1)) \o Lower(SubSeq(s, 2, Len(s)))

RECURSIVE Split(_, _)
\* s.split(c): the pieces of s between occurrences of the character c
Split(s, c) == IF Find(s, c) = 0 THEN <<s>> ELSE <<SubSeq(s, 1, Find(s, c) - 1)>> \o Split(SubSeq(s, Find(s, c) + 1, Len(s)), c)

RECURSIVE ReplacePlus(_)
\* s.replace('+', ' ')
ReplacePlus(s) == IF s = "" THEN "" ELSE (IF Char(s, 1) = "+" THEN " " ELSE Char(s, 1)) \o ReplacePlus(SubSeq(s, 2, Len(s)))

(***************************************************************************)
(* urllib.parse.unquote for printable ASCII: every %XX whose XX are two    *)
(* hex digits is replaced by the character with that code; any other '%'   *)
(* is kept.  Codes outside 32..126 and code 96 (written ? in Chr)         *)
(* do not occur in the inputs drawn below.                                 *)
(***************************************************************************)
HexVal(c) == Find("0123456789abcdef", LowerChar(c)) - 1

IsHex(c) == Len(c) = 1 /\ HexVal(c) >= 0

Chr(n) == IF n \in 32..126 THEN Char(" !\"#$%&'()*+,-./0123456789:;<=>?@ABCDEFGHIJKLMNOPQRSTUVWXYZ[\\]^_?abcdefghijklmnopqrstuvwxyz{|}~", n - 31) ELSE "?"

RECURSIVE Unquote(_)
Unquote(s) ==
  IF s = "" THEN ""
  ELSE IF Char(s, 1) = "%" /\ Len(s) >= 3 /\ IsHex(Char(s, 2)) /\ IsHex(Char(s, 3))
       THEN Chr(16 * HexVal(Char(s, 2)) + HexVal(Char(s, 3))) \o Unquote(SubSeq(s, 4, Len(s)))
       ELSE Char(s, 1) \o Unquote(SubSeq(s, 2, Len(s)))

(***************************************************************************)
(* LinkExtractor (duckmail_client.py)                                      *)
(***************************************************************************)
IsQuote(c) == c = "\"" \/ c = "'"

\* position of the first quote character of s, 0 when there is none
FirstQuote(s) == IF \E i \in 1..Len(s) : IsQuote(Char(s, i)) THEN CHOOSE i \in 1..Len(s) : IsQuote(Char(s, i)) /\ \A j \in 1..(i - 1) : ~IsQuote(Char(s, j)) ELSE 0

RECURSIVE extract_hrefs_from_html(_)
\* re.findall(r'href=["\']([^"\']+)["\']', html_content, re.IGNORECASE)
extract_hrefs_from_html(html_content) ==
  IF Len(html_content) < 8 THEN <<>>
  ELSE LET rest == SubSeq(html_content, 7, Len(html_content))
           q == FirstQuote(rest)
       IN IF Lower(SubSeq(html_content, 1, 5)) = "href=" /\ IsQuote(Char(html_content, 6)) /\ q >= 2
          THEN <<SubSeq(rest, 1, q - 1)>> \o extract_hrefs_from_html(SubSeq(rest, q + 1, Len(rest)))
          ELSE extract_hrefs_from_html(SubSeq(html_content, 2, Len(html_content)))

\* the characters excluded by [^\s<>"'] (the inputs hold no other whitespace)
IsUrlStop(c) == c \in {" ", "\t", "\n", "\r", "\f", "<", ">", "\"", "'"}

\* length of the longest prefix of s free of stop characters
UrlRun(s) == IF \E i \in 1..Len(s) : IsUrlStop(Char(s, i)) THEN (CHOOSE i \in 1..Len(s) : IsUrlStop(Char(s, i)) /\ \A j \in 1..(i - 1) : ~IsUrlStop(Char(s, j))) - 1 ELSE Len(s)

RECURSIVE extract_urls_from_text(_)
\* re.findall(r'https?://[^\s<>"\']+', text_content)
extract_urls_from_text(text_content) ==
  IF text_content = "" THEN <<>>
  ELSE LET n == IF StartsWith(text_content, "https://") THEN 8 ELSE IF StartsWith(text_content, "http://") THEN 7 ELSE 0
           k == UrlRun(SubSeq(text_content, n + 1, Len(text_content)))
       IN IF n > 0 /\ k >= 1
          THEN <<SubSeq(text_content, 1, n + k)>> \o extract_urls_from_text(SubSeq(text_content, n + k + 1, Len(text_content)))
          ELSE extract_urls_from_text(SubSeq(text_content, 2, Len(text_content)))

\* urlparse(url).query: what follows the first '?' in the part before the first '#'
UrlQuery(url) ==
  LET h == Find(url, "#")
      u == IF h = 0 THEN url ELSE SubSeq(url, 1, h - 1)
      q == Find(u, "?")
  IN IF q = 0 THEN "" ELSE SubSeq(u, q + 1, Len(u))

RECURSIVE QsPairs(_)
\* the (name, value) pairs parse_qs keeps from the '&'-separated pieces:
\* a piece without '=' or with an empty value is dropped, '+' becomes a
\* space and name and value are percent-decoded
QsPairs(pieces) ==
  IF pieces = <<>> THEN <<>>
  ELSE LET nv == Head(pieces)
           e == Find(nv, "=")
           name == SubSeq(nv, 1, e - 1)
           value == SubSeq(nv, e + 1, Len(nv))
       IN (IF e = 0 \/ value = "" THEN <<>> ELSE <<<<Unquote(ReplacePlus(name)), Unquote(ReplacePlus(value))>>>>) \o QsPairs(Tail(pieces))

\* urllib.parse.parse_qs(query), as the sequence of its (name, value) pairs
parse_qs(query) == QsPairs(Split(query, "&"))

\* query_params.get(name): the values of name in order, <<>> when absent
QsGet(pairs, name) == LET hits == SelectSeq(pairs, LAMBDA p : p[1] = name) IN [i \in 1..Len(hits) |-> hits[i][2]]

extract_ccurl(url) ==
  LET query_params == parse_qs(UrlQuery(url))
      cc_url_list == IF QsGet(query_params, "ccUrl") # <<>> THEN QsGet(query_params, "ccUrl") ELSE QsGet(query_params, "ccurl")
  IN IF cc_url_list # <<>> THEN Some(Unquote(cc_url_list[1])) ELSE None

is_verification_link(url) ==
  LET url_lower == Lower(url)
  IN \/ Contains(url_lower, "tappaction=cc") /\ Contains(url_lower, "ccurl=")
     \/ Contains(url_lower, "chayns.cc/login1")
     \/ Contains(url_lower, "code=") /\ (Contains(url_lower, "chayns") \/ Contains(url_lower, "login"))

StaticExtensions == {".png", ".jpg", ".gif", ".css", ".js"}

\* the fallback filter without the static-asset exclusion
IsFallbackLink_NoStaticExclusion(u) == StartsWith(u, "http")

\* the fallback filter of extract_confirmation_link
IsFallbackLink(u) == StartsWith(u, "http") /\ ~\E ext \in StaticExtensions : Contains(Lower(u), ext)

RECURSIVE AllHrefs(_)
\* all_urls after the loop over email_detail.html
AllHrefs(html) == IF html = <<>> THEN <<>> ELSE extract_hrefs_from_html(Head(html)) \o AllHrefs(Tail(html))

\* a collection that always adds the URLs of the plain-text body
CollectUrls_Both(email_detail) == AllHrefs(email_detail.html) \o extract_urls_from_text(email_detail.text)

\* all_urls after the plain-text fallback
CollectUrls(email_detail) == IF AllHrefs(email_detail.html) # <<>> THEN AllHrefs(email_detail.html) ELSE extract_urls_from_text(email_detail.text)

\* a filter that keeps whitelisted and fallback URLs alike, in collection order
VerificationLinks_Merged(all_urls) == SelectSeq(all_urls, LAMBDA u : is_verification_link(u) \/ IsFallbackLink(u))

\* verification_links: the whitelisted URLs, or the fallback ones when none is whitelisted
VerificationLinks(all_urls) == IF SelectSeq(all_urls, is_verification_link) # <<>> THEN SelectSeq(all_urls, is_verification_link) ELSE SelectSeq(all_urls, IsFallbackLink)

\* the link returned for the selected candidate original_link
ResolveLink(original_link) ==
  LET cc_url == extract_ccurl(original_link)
  IN IF cc_url # None /\ StartsWith(cc_url[1], "http") THEN cc_url[1] ELSE original_link

\* steps 4-6: none when no link survived, else the first one resolved
SelectAndResolve(verification_links) == IF verification_links = <<>> THEN None ELSE Some(ResolveLink(verification_links[1]))

extract_confirmation_link(email_detail) == SelectAndResolve(VerificationLinks(CollectUrls(email_detail)))

(***************************************************************************)
(* Message details handed to the extractor.                                *)
(***************************************************************************)
MaxFrags == 2

Fragments == {
  "<a href=\"https://x.test/r?tappAction=cc&ccUrl=https%3A%2F%2Fchayns.cc%2Flogin1%3Fcode%3Dabc\">Go</a>",
  "<a href=\"https://x.test/r?tappAction=cc&ccUrl=https%3A%2F%2Fa.test%2F%3Fr%3Dx%252Fy\">Go</a>",
  "<a href=\"https://x.test/r?tappAction=cc&ccUrl=%2568ttp%3A%2F%2Fevil.test\">Go</a>",
  "<a href=\"https://x.test/r?tappAction=cc&ccUrl=%2Flocal%2Fpath\">Go</a>",
  "<a href='/r?tappAction=cc&ccUrl=x'>Go</a>",
  "<img src=\"i.gif\"><link HREF=\"https://cdn.test/logo.png\">",
  "<a href=\"https://site.test/welcome\">Hi</a>",
  "<a href=\"ftp://files.test/a\">files</a>",
  "<p>hello</p>" }

Texts == { "", "visit https://chayns.cc/login1?code=zz now", "see https://cdn.test/app.js" }

BoundedSeq(S, n) == UNION { [1..k -> S] : k \in 0..n }

Details == [html : BoundedSeq(Fragments, MaxFrags), text : Texts]

LxIdle == [pc |-> "idle", email_detail |-> [html |-> <<>>, text |-> ""], all_urls |-> <<>>, original_link |-> None, result |-> None]

\* a caller hands a message detail to extract_confirmation_link
LxCall(d) == [LxIdle EXCEPT !.pc = "called", !.email_detail = d]

\* LinkExtractor.extract_confirmation_link runs to its return
LxExtract ==
  /\ lx.pc = "called"
  /\ LET all_urls == CollectUrls(lx.email_detail)
         verification_links == VerificationLinks(all_urls)
     IN lx' = [lx EXCEPT !.pc = "returned",
                         !.all_urls = all_urls,
                         !.original_link = IF verification_links = <<>> THEN None ELSE Some(verification_links[1]),
                         !.result = SelectAndResolve(verification_links)]
  /\ UNCHANGED <<lock, run, mp, dc, ve>>

(***************************************************************************)
(* DuckMailClient.is_verification_email and the mailbox seen by a run.     *)
(***************************************************************************)
DEFAULT_SUBJECT_PATTERNS == <<"Welcome to chayns", "verify", "activate", "confirm", "Willkommen", "bestätigen">>

VERIFICATION_SENDERS == <<"noreply@chayns.de", "no-reply@chayns.de">>

\* re.search(pattern, subject, re.IGNORECASE) for the literal patterns above
SubjectMatches(subject, pattern) == Contains(Lower(subject), Lower(pattern))

\* a predicate that compares the sender with the whitelist entries as written
is_verification_email_CaseSensitive(message, subject_patterns, sender_whitelist) ==
  LET patterns == IF subject_patterns = None THEN DEFAULT_SUBJECT_PATTERNS ELSE subject_patterns[1]
      whitelist == IF sender_whitelist = None THEN VERIFICATION_SENDERS ELSE sender_whitelist[1]
  IN \/ \E i \in 1..Len(whitelist) : message.from_address = whitelist[i]
     \/ \E i \in 1..Len(patterns) : SubjectMatches(message.subject, patterns[i])

\* is_verification_email(message, subject_patterns, sender_whitelist): an
\* argument left out (None) stands for the module's default list
is_verification_email(message, subject_patterns, sender_whitelist) ==
  LET patterns == IF subject_patterns = None THEN DEFAULT_SUBJECT_PATTERNS ELSE subject_patterns[1]
      whitelist == IF sender_whitelist = None THEN VERIFICATION_SENDERS ELSE sender_whitelist[1]
  IN \/ \E i \in 1..Len(whitelist) : Lower(message.from_address) = Lower(whitelist[i])
     \/ \E i \in 1..Len(patterns) : SubjectMatches(message.subject, patterns[i])

VeIdle == [pc |-> "idle", message |-> [id |-> "1", from_address |-> "", subject |-> ""], subject_patterns |-> None, sender_whitelist |-> None, result |-> FALSE]

\* a caller hands a summary and the two optional lists to is_verification_email
VeCall(message, subject_patterns, sender_whitelist) ==
  [VeIdle EXCEPT !.pc = "called", !.message = message, !.subject_patterns = subject_patterns, !.sender_whitelist = sender_whitelist]

\* DuckMailClient.is_verification_email runs to its return
VeReturn ==
  /\ ve.pc = "called"
  /\ ve' = [ve EXCEPT !.pc = "returned", !.result = is_verification_email(ve.message, ve.subject_patterns, ve.sender_whitelist)]
  /\ UNCHANGED <<lock, run, lx, mp, dc>>

MsgIds == {"1", "2"}

\* message summaries the provider may list
Messages == {
  [id |-> "1", from_address |-> "NoReply@chayns.de", subject |-> "Hello"],
  [id |-> "1", from_address |-> "shop@ads.test", subject |-> "Welcome to chayns"],
  [id |-> "2", from_address |-> "shop@ads.test", subject |-> "random"],
  [id |-> "2", from_address |-> "NoReply@chayns.de", subject |-> "Hello"] }

MaxListing == 2

\* the summaries listed to the runs of Spec: one verification mail, one other mail
RunMessages == { m \in Messages : m.from_address = "shop@ads.test" }

\* what list_messages() may give a run of Spec: None when it raises, else an
\* empty mailbox or the verification mail (mailboxes with other mails and
\* with repeated ids are read by both loops in SpecPoll)
Listings == {None, Some(<<>>)} \cup { Some(<<m>>) : m \in { q \in RunMessages : is_verification_email(q, None, None) } }

\* the message details the provider may serve to a run
MailDetails == {
  [html |-> <<"<a href=\"https://x.test/r?tappAction=cc&ccUrl=https%3A%2F%2Fchayns.cc%2Flogin1%3Fcode%3Dabc\">Go</a>">>, text |-> ""],
  [html |-> <<"<p>hello</p>">>, text |-> ""] }

\* what get_message(id) may give for each id: None when it raises, else a detail
Fetches == [MsgIds -> {None} \cup { Some(d) : d \in MailDetails }]

\* the get_message outcomes offered to the runs of Spec within one polling
\* attempt: the same outcome whichever id is requested
RunFetches == { f \in Fetches : \A i, j \in MsgIds : f[i] = f[j] }

(***************************************************************************)
(* DuckMailClient (duckmail_client.py): the account and its token, and     *)
(* what each call raises and whether it sent its HTTP request.             *)
(***************************************************************************)
\* DuckMailClient.__init__: no account yet
NewClient == [account |-> None, token |-> FALSE]

\* the outcome of a call: the client afterwards, the exception raised (if
\* any), the value returned (if any) and whether the request went out
Outcome(client, raised, value, sent) == [client |-> client, raised |-> raised, value |-> value, sent |-> sent]

\* how the provider may answer POST /accounts
CreateAnswers == {"ok", "error"}

\* create_account: POST /accounts for the generated address; self.account is set on success
create_account(c, address, answer) ==
  IF answer = "error" THEN Outcome(c, Some("HTTPError"), None, TRUE)
  ELSE Outcome([account |-> Some(address), token |-> FALSE], None, Some(address), TRUE)

\* how the provider may answer POST /token: a token, an error status, a body without token
TokenAnswers == {"ok", "error", "no_token"}

\* get_token(address): without an address the current account is used and
\* must exist; the token is stored only if an account exists
get_token(c, address, answer) ==
  IF address = None /\ c.account = None THEN Outcome(c, Some("ValueError"), None, FALSE)
  ELSE IF answer = "error" THEN Outcome(c, Some("HTTPError"), None, TRUE)
  ELSE IF answer = "no_token" THEN Outcome(c, Some("ValueError"), None, TRUE)
  ELSE Outcome(IF c.account # None THEN [c EXCEPT !.token = TRUE] ELSE c, None, Some("jwt"), TRUE)

\* a listing call that sends its request whether or not a token is set
list_messages_Unguarded(c, answer) ==
  IF answer = None THEN Outcome(c, Some("HTTPError"), None, TRUE) ELSE Outcome(c, None, answer, TRUE)

\* list_messages: refuses without a token, else GET /messages; answer is
\* None when the request fails, else the listing
list_messages(c, answer) ==
  IF c.account = None \/ ~c.token THEN Outcome(c, Some("ValueError"), None, FALSE)
  ELSE IF answer = None THEN Outcome(c, Some("HTTPError"), None, TRUE)
  ELSE Outcome(c, None, answer, TRUE)

\* get_message: refuses without a token, else GET /messages/{id}; answer is
\* None when the request fails, else the detail
get_message(c, message_id, answer) ==
  IF c.account = None \/ ~c.token THEN Outcome(c, Some("ValueError"), None, FALSE)
  ELSE IF answer = None THEN Outcome(c, Some("HTTPError"), None, TRUE)
  ELSE Outcome(c, None, answer, TRUE)

\* extract_confirmation_link on the details above, evaluated once
LinkOf == [d \in MailDetails |-> extract_confirmation_link(d)]

\* is_verification_email on the summaries above, evaluated once
IsVerificationEmail == [m \in Messages |-> is_verification_email(m, None, None)]

\* a loop that examines a listed message whether or not it has examined its id
AlreadySeen_Forgets(id, seen_ids) == FALSE

\* _wait_for_confirmation_link skips a listed message whose id it has examined
AlreadySeen(id, seen_ids) == id \in seen_ids

RECURSIVE ScanMessages(_, _, _, _, _)
\* the body of "for msg in messages" in _wait_for_confirmation_link: the ids
\* examined, the predicate evaluations and detail requests per id, the link
\* found (if any) and whether get_message raised and ended the scan
ScanMessages(messages, seen_ids, evals, fetched, fetch) ==
  IF messages = <<>> THEN [seen_ids |-> seen_ids, evals |-> evals, fetched |-> fetched, link |-> None, raised |-> FALSE]
  ELSE LET msg == Head(messages)
           seen2 == seen_ids \cup {msg.id}
           evals2 == [evals EXCEPT ![msg.id] = @ + 1]
           fetched2 == [fetched EXCEPT ![msg.id] = @ + 1]
       IN IF AlreadySeen(msg.id, seen_ids) THEN ScanMessages(Tail(messages), seen_ids, evals, fetched, fetch)
          ELSE IF ~IsVerificationEmail[msg] THEN ScanMessages(Tail(messages), seen2, evals2, fetched, fetch)
          ELSE IF fetch[msg.id] = None THEN [seen_ids |-> seen2, evals |-> evals2, fetched |-> fetched2, link |-> None, raised |-> TRUE]
          ELSE IF LinkOf[fetch[msg.id][1]] # None THEN [seen_ids |-> seen2, evals |-> evals2, fetched |-> fetched2, link |-> LinkOf[fetch[msg.id][1]], raised |-> FALSE]
          ELSE ScanMessages(Tail(messages), seen2, evals2, fetched2, fetch)

(***************************************************************************)
(* handle_autoregister and AutoRegister (autoregister.py).                 *)
(***************************************************************************)
NumRequests == 2

Requests == 1..NumRequests

EMAIL_POLL_MAX_ATTEMPTS == 40

BranchMaxAttempts == 10

NameMaxAttempts == 10

DEFAULT_PASSWORD == "12345Abc"

\* request.password of the r-th request: absent, or a password of 8..100 characters
RequestPassword(r) == IF r % 2 = 1 THEN None ELSE Some("Passw0rd!")

\* the address DuckMailClient.create_account generates for the r-th request
\* (a fresh random prefix at the configured domain)
NewAddress(r) == "box" \o ToString(r) \o "@duckmail.sbs"

NoCounts == [i \in MsgIds |-> 0]

RunIdle == [pc |-> "idle", status |-> 0, req_password |-> None, password |-> "", state |-> "-",
            email |-> None, account |-> None, token |-> FALSE, typed |-> None, driver |-> "none",
            late |-> FALSE, attempt |-> 0, probe |-> None, seen_ids |-> {}, evals |-> NoCounts,
            fetched |-> NoCounts, confirmation_link |-> None, exc |-> None, visited |-> <<>>,
            opened |-> 0, quits |-> 0, releases |-> 0, healthy |-> TRUE, observed |-> {}, result |-> None,
            first_name_input |-> None, last_name_input |-> None, continue_call |-> None, password_call |-> None, verify_call |-> None,
            lists |-> 0, sleeps |-> 0, fetch_raised |-> {}, offered |-> None]

\* handle_autoregister has raised HTTPException(status) at the gate
Returned(status) == [RunIdle EXCEPT !.pc = "returned", !.status = status]

\* AutoRegister.__init__
NewAutoRegister(p) == [RunIdle EXCEPT !.pc = "init_duckmail", !.req_password = p,
                                      !.password = IF p # None THEN p[1] ELSE DEFAULT_PASSWORD,
                                      !.state = "init", !.visited = <<"init">>]

\* self.state = st
SetState(rec, st) == [rec EXCEPT !.state = st, !.visited = Append(@, st)]

AutoRegisterException(code, state) == [type |-> "AutoRegisterException", code |-> code, state |-> state, email |-> None]

\* an already-exists error built without the address
EmailExistsException_NoEmail(email) == [type |-> "EmailExistsException", code |-> 409, state |-> "branch_detected", email |-> ""]

EmailExistsException(email) == [type |-> "EmailExistsException", code |-> 409, state |-> "branch_detected", email |-> email]

TimeoutExceededException(state) == [type |-> "TimeoutExceededException", code |-> 504, state |-> state, email |-> None]

AssertionFailedException(state) == [type |-> "AssertionFailedException", code |-> 422, state |-> state, email |-> None]

\* an exception that is no AutoRegisterException (requests, selenium, NameError, ...)
OtherException(name) == [type |-> name, code |-> 0, state |-> "-", email |-> None]

IsAutoRegisterException(e) == e.type \in {"AutoRegisterException", "EmailExistsException", "TimeoutExceededException", "AssertionFailedException"}

\* raise e inside execute()'s try block: the frames of the step functions are
\* unwound and their loop locals are gone
Raise(rec, e) == [rec EXCEPT !.pc = "except", !.exc = Some(e), !.attempt = 0, !.seen_ids = {}, !.evals = NoCounts, !.fetched = NoCounts,
                              !.first_name_input = None, !.last_name_input = None, !.continue_call = None, !.password_call = None,
                              !.lists = 0, !.sleeps = 0, !.fetch_raised = {}, !.offered = None]

\* a fault of an external collaborator raises e
Fault(rec, e) == [Raise(rec, e) EXCEPT !.healthy = FALSE]

\* a checkpoint that never looks at the clock
CheckTimeout_Never(rec, next) == [rec EXCEPT !.pc = next]

\* _check_timeout(), then the step at pc next
CheckTimeout(rec, next) == IF rec.late THEN Raise(rec, TimeoutExceededException(rec.state)) ELSE [rec EXCEPT !.pc = next]

\* an acquire that succeeds whether or not the lock is held
TryAcquire_Always(l) == TRUE

\* _autoregister_lock.acquire(blocking=False) succeeds iff the lock is free
TryAcquire(l) == ~l

\* AutoRegister.execute() is in progress for the request
InExecute(r) == run[r].pc \notin {"idle", "returned", "finally_release", "finally_cleanup"}

\* a gate whose rejection takes the lock away from the running request
Admit_RejectReleases(r) ==
  /\ run[r].pc = "idle"
  /\ IF TryAcquire(lock)
     THEN lock' = TRUE /\ run' = [run EXCEPT ![r] = NewAutoRegister(RequestPassword(r))]
     ELSE lock' = FALSE /\ run' = [run EXCEPT ![r] = Returned(503)]
  /\ UNCHANGED <<lx, mp, dc, ve>>

\* handle_autoregister up to execute(): the gate, then AutoRegister(request)
Admit(r) ==
  /\ run[r].pc = "idle"
  /\ IF TryAcquire(lock)
     THEN lock' = TRUE /\ run' = [run EXCEPT ![r] = NewAutoRegister(RequestPassword(r))]
     ELSE lock' = lock /\ run' = [run EXCEPT ![r] = Returned(503)]
  /\ UNCHANGED <<lx, mp, dc, ve>>

\* time.time() - self.start_time has grown beyond GLOBAL_TIMEOUT_SECONDS
Elapse(rec, passes) == IF passes THEN [rec EXCEPT !.late = TRUE, !.healthy = FALSE] ELSE rec

\* the wall clock passes start_time + GLOBAL_TIMEOUT_SECONDS between two steps
TimePasses(r) ==
  /\ InExecute(r) /\ run[r].pc # "except" /\ ~run[r].late
  /\ run' = [run EXCEPT ![r] = Elapse(@, TRUE)]
  /\ UNCHANGED <<lock, lx, mp, dc, ve>>

\* self.email = account.address
AssignEmail(rec) == [rec EXCEPT !.email = rec.account]

\* self.duckmail_client of the run
MailboxClient(rec) == [account |-> rec.account, token |-> rec.token]

WithMailboxClient(rec, c) == [rec EXCEPT !.account = c.account, !.token = c.token]

\* a step that takes over the address before it asks for the token
InitDuckmail_EmailBeforeToken(r) ==
  /\ run[r].pc = "init_duckmail"
  /\ \E a \in CreateAnswers, t \in {"ok", "error"} :
       run' = [run EXCEPT ![r] =
         LET created == create_account(NewClient, NewAddress(r), a)
             tokened == get_token(created.client, None, t)
         IN IF created.raised # None THEN Fault(WithMailboxClient(@, created.client), OtherException(created.raised[1]))
            ELSE IF created.value = None \/ created.value[1] = "" THEN Raise(WithMailboxClient(@, created.client), AutoRegisterException(500, @.state))
            ELSE IF tokened.raised # None THEN Fault(AssignEmail(WithMailboxClient(@, tokened.client)), OtherException(tokened.raised[1]))
            ELSE CheckTimeout(SetState(AssignEmail(WithMailboxClient(@, tokened.client)), "duckmail_created"), "open_site")]
  /\ UNCHANGED <<lock, lx, mp, dc, ve>>

\* _init_duckmail: a new client, create_account, get_token, then the email and the state
InitDuckmail(r) ==
  /\ run[r].pc = "init_duckmail"
  /\ \E a \in CreateAnswers, t \in {"ok", "error"} :
       run' = [run EXCEPT ![r] =
         LET created == create_account(NewClient, NewAddress(r), a)
             tokened == get_token(created.client, None, t)
         IN IF created.raised # None THEN Fault(WithMailboxClient(@, created.client), OtherException(created.raised[1]))
            ELSE IF created.value = None \/ created.value[1] = "" THEN Raise(WithMailboxClient(@, created.client), AutoRegisterException(500, @.state))
            ELSE IF tokened.raised # None THEN Fault(WithMailboxClient(@, tokened.client), OtherException(tokened.raised[1]))
            ELSE CheckTimeout(SetState(AssignEmail(WithMailboxClient(@, tokened.client)), "duckmail_created"), "open_site")]
  /\ UNCHANGED <<lock, lx, mp, dc, ve>>

\* _open_site_and_login_entry up to self.state = SITE_OPENED
OpenSite(r) ==
  /\ run[r].pc = "open_site"
  /\ \E o \in {"driver_raises", "load_raises", "ok"} :
       run' = [run EXCEPT ![r] =
         CASE o = "driver_raises" -> Fault(@, OtherException("WebDriverException"))
           [] o = "load_raises" -> Fault([@ EXCEPT !.driver = "open", !.opened = @ + 1], OtherException("TimeoutException"))
           [] o = "ok" -> SetState([@ EXCEPT !.driver = "open", !.opened = @ + 1, !.pc = "login_entry"], "site_opened")]
  /\ UNCHANGED <<lock, lx, mp, dc, ve>>

\* the rest of _open_site_and_login_entry: find and click the login button
LoginEntry(r) ==
  /\ run[r].pc = "login_entry"
  /\ \E o \in {"css", "text", "none"} :
       run' = [run EXCEPT ![r] =
         IF o = "none" THEN Fault(@, AssertionFailedException(@.state))
         ELSE CheckTimeout(SetState(@, "login_entry"), "enter_email")]
  /\ UNCHANGED <<lock, lx, mp, dc, ve>>

CONTINUE_BUTTON_TEXTS == <<"weiter", "continue", "next", "fortfahren", "registrieren", "register">>

\* buttons a page may carry: a live submit button, a disabled and a hidden
\* one, a plain button and a role=button element with a continue text, and
\* a button with another text
ContinueButtons ==
  [s |-> [id |-> "s", tag |-> "button", type |-> "submit", displayed |-> TRUE, enabled |-> TRUE, text |-> "Senden"],
   g |-> [id |-> "g", tag |-> "button", type |-> "submit", displayed |-> TRUE, enabled |-> FALSE, text |-> "Next"],
   h |-> [id |-> "h", tag |-> "button", type |-> "submit", displayed |-> FALSE, enabled |-> TRUE, text |-> "Weiter"],
   t |-> [id |-> "t", tag |-> "button", type |-> "button", displayed |-> TRUE, enabled |-> TRUE, text |-> " Continue "],
   d |-> [id |-> "d", tag |-> "div", type |-> "", displayed |-> TRUE, enabled |-> TRUE, text |-> "Jetzt registrieren"],
   x |-> [id |-> "x", tag |-> "button", type |-> "button", displayed |-> TRUE, enabled |-> TRUE, text |-> "Cancel"]]

\* the buttons of a page in document order, and whether a browser call of the
\* first try block raises (a stale element, a script error) before the click
\* of a submit button that is there
ContinuePages ==
  LET b == ContinueButtons
  IN { [buttons |-> p, raises |-> FALSE] : p \in {<<b.t, b.s>>, <<b.g, b.x>>, <<b.h, b.d, b.t>>} }
     \cup { [buttons |-> p, raises |-> TRUE] : p \in {<<b.s>>, <<b.t, b.s>>} }

\* any(x in t for x in CONTINUE_BUTTON_TEXTS) with t = b.text.strip().lower(), evaluated once
HasContinueText ==
  [id \in DOMAIN ContinueButtons |-> \E i \in 1..Len(CONTINUE_BUTTON_TEXTS) : Contains(Lower(ContinueButtons[id].text), CONTINUE_BUTTON_TEXTS[i])]

\* find_submit: the first button[type='submit'] that is displayed and enabled
find_submit(buttons) ==
  LET found == SelectSeq(buttons, LAMBDA b : b.tag = "button" /\ b.type = "submit" /\ b.displayed /\ b.enabled)
  IN IF found = <<>> THEN None ELSE Some(Head(found))

\* find_text_button: the first displayed and enabled button or role=button
\* element whose text holds a continue keyword
find_text_button(buttons) ==
  LET found == SelectSeq(buttons, LAMBDA b : b.displayed /\ b.enabled /\ HasContinueText[b.id])
  IN IF found = <<>> THEN None ELSE Some(Head(found))

\* a finder that looks for the text button before the submit button
click_continue_button_TextFirst(page) ==
  IF find_text_button(page.buttons) # None THEN [clicked |-> <<find_text_button(page.buttons)[1].id>>, fallback |-> TRUE, raised |-> FALSE]
  ELSE IF ~page.raises /\ find_submit(page.buttons) # None THEN [clicked |-> <<find_submit(page.buttons)[1].id>>, fallback |-> TRUE, raised |-> FALSE]
  ELSE [clicked |-> <<>>, fallback |-> TRUE, raised |-> TRUE]

\* _click_continue_button: the submit button is clicked if the first try
\* block finds one and nothing in it raises; any exception there is swallowed
\* and the text search follows; with no text button either, the assertion
\* error is raised. The result names the elements clicked, whether the text
\* search was made, and whether the call raised
click_continue_button(page) ==
  IF ~page.raises /\ find_submit(page.buttons) # None THEN [clicked |-> <<find_submit(page.buttons)[1].id>>, fallback |-> FALSE, raised |-> FALSE]
  ELSE IF find_text_button(page.buttons) # None THEN [clicked |-> <<find_text_button(page.buttons)[1].id>>, fallback |-> TRUE, raised |-> FALSE]
  ELSE [clicked |-> <<>>, fallback |-> TRUE, raised |-> TRUE]

\* the run after a step has called _click_continue_button on the page: it
\* records the page and what the call did
AfterContinue(rec, page) == [rec EXCEPT !.continue_call = Some([page |-> page, did |-> click_continue_button(page)])]

EnterEmail(r) ==
  /\ run[r].pc = "enter_email"
  /\ \E o \in {"no_iframe", "no_input", "ok"}, c \in ContinuePages :
       run' = [run EXCEPT ![r] =
         IF o # "ok" THEN Fault(@, AssertionFailedException(@.state))
         ELSE IF click_continue_button(c).raised
              THEN AfterContinue(Fault([@ EXCEPT !.typed = run[r].email], AssertionFailedException(@.state)), c)
         ELSE AfterContinue(CheckTimeout(SetState([@ EXCEPT !.typed = run[r].email, !.attempt = 0], "email_entered"), "detect_branch"), c)]
  /\ UNCHANGED <<lock, lx, mp, dc, ve>>

\* what one probe of _detect_branch observes on the page
Probes == [password : BOOLEAN, keyword : BOOLEAN, name_inputs : BOOLEAN]

\* a probe that tests the create-account keyword before the password input
BranchSignal_KeywordFirst(obs) == IF obs.keyword THEN "new" ELSE IF obs.password THEN "exists" ELSE IF obs.name_inputs THEN "new" ELSE "none"

\* the order in which one probe tests its three signals
BranchSignal(obs) == IF obs.password THEN "exists" ELSE IF obs.keyword THEN "new" ELSE IF obs.name_inputs THEN "new" ELSE "none"

\* one iteration of the loop of _detect_branch; the budget may run out
\* between the check that opens the iteration and the checkpoint after the step
DetectBranchProbe(r) ==
  /\ run[r].pc = "detect_branch" /\ run[r].attempt < BranchMaxAttempts
  /\ \E obs \in Probes, passes \in BOOLEAN :
       run' = [run EXCEPT ![r] =
         IF @.late THEN Raise(@, TimeoutExceededException(@.state))
         ELSE CASE BranchSignal(obs) = "exists" -> Fault([@ EXCEPT !.probe = Some(obs)], EmailExistsException(@.email[1]))
                [] BranchSignal(obs) = "new" -> CheckTimeout(Elapse(SetState([@ EXCEPT !.probe = Some(obs), !.attempt = 0, !.continue_call = None], "branch_detected"), passes), "fill_register_form")
                [] BranchSignal(obs) = "none" -> [@ EXCEPT !.probe = Some(obs), !.attempt = @ + 1, !.continue_call = None]]
  /\ UNCHANGED <<lock, lx, mp, dc, ve>>

\* a loop that, out of probes, takes the address for a new one
DetectBranchGiveUp_AssumesNew(r) ==
  /\ run[r].pc = "detect_branch" /\ run[r].attempt = BranchMaxAttempts
  /\ run' = [run EXCEPT ![r] = CheckTimeout(SetState([@ EXCEPT !.attempt = 0, !.continue_call = None], "branch_detected"), "fill_register_form")]
  /\ UNCHANGED <<lock, lx, mp, dc, ve>>

\* the loop of _detect_branch ends without a signal
DetectBranchGiveUp(r) ==
  /\ run[r].pc = "detect_branch" /\ run[r].attempt = BranchMaxAttempts
  /\ run' = [run EXCEPT ![r] = Fault(@, AssertionFailedException(@.state))]
  /\ UNCHANGED <<lock, lx, mp, dc, ve>>

\* _fill_register_form up to the call of _find_name_inputs
FillRegisterForm(r) ==
  /\ run[r].pc = "fill_register_form"
  /\ run' = [run EXCEPT ![r] = SetState([@ EXCEPT !.pc = "find_name_inputs", !.attempt = 0, !.probe = None], "register_form")]
  /\ UNCHANGED <<lock, lx, mp, dc, ve>>

\* the visible inputs a registration page may show: what the keyword lists
\* find in the texts of each (name, placeholder, autocomplete, id, aria-label
\* or parent text) and its type attribute
NameInputs == [
  a |-> [id |-> "a", type |-> "text", first |-> TRUE, last |-> FALSE],
  b |-> [id |-> "b", type |-> "text", first |-> FALSE, last |-> TRUE],
  c |-> [id |-> "c", type |-> "text", first |-> TRUE, last |-> TRUE],
  t |-> [id |-> "t", type |-> "text", first |-> FALSE, last |-> FALSE],
  u |-> [id |-> "u", type |-> "", first |-> FALSE, last |-> FALSE],
  e |-> [id |-> "e", type |-> "email", first |-> TRUE, last |-> TRUE] ]

\* visible_inputs of one probe, in document order
NamePages == { <<>>, <<NameInputs.e>>, <<NameInputs.e, NameInputs.a>>, <<NameInputs.e, NameInputs.b>>,
               <<NameInputs.a, NameInputs.b>>, <<NameInputs.b, NameInputs.a>>, <<NameInputs.c>>,
               <<NameInputs.t>>, <<NameInputs.e, NameInputs.t>>, <<NameInputs.t, NameInputs.u>> }

\* the input types both loops of _find_name_inputs skip
SkippedInputTypes == {"email", "tel", "phone", "password", "hidden", "submit", "button"}

RECURSIVE MatchNameKeywords(_, _, _)
\* the keyword loop over visible_inputs: an input fills first_name_input and
\* last_name_input, each if still empty and a keyword of its list occurs in
\* the input's texts; the loop stops once both are filled
MatchNameKeywords(visible_inputs, first_name_input, last_name_input) ==
  IF visible_inputs = <<>> \/ (first_name_input # None /\ last_name_input # None) THEN <<first_name_input, last_name_input>>
  ELSE LET inp == Head(visible_inputs)
       IN IF inp.type \in SkippedInputTypes THEN MatchNameKeywords(Tail(visible_inputs), first_name_input, last_name_input)
          ELSE MatchNameKeywords(Tail(visible_inputs),
                                 IF first_name_input = None /\ inp.first THEN Some(inp.id) ELSE first_name_input,
                                 IF last_name_input = None /\ inp.last THEN Some(inp.id) ELSE last_name_input)

\* text_inputs of the generic method: the visible inputs of a text type
TextInputs(visible_inputs) == SelectSeq(visible_inputs, LAMBDA inp : inp.type \notin SkippedInputTypes)

\* the body of one attempt of _find_name_inputs: the pair after the keyword
\* loop, else the first two text inputs, else what the keywords gave so far
ProbeNameInputs(visible_inputs, first_name_input, last_name_input) ==
  LET matched == MatchNameKeywords(visible_inputs, first_name_input, last_name_input)
      text_inputs == TextInputs(visible_inputs)
  IN IF matched[1] # None /\ matched[2] # None THEN matched
     ELSE IF Len(text_inputs) >= 2 THEN <<Some(text_inputs[1].id), Some(text_inputs[2].id)>>
     ELSE matched

\* one iteration of the loop of _find_name_inputs; with both inputs set the
\* function returns them and _fill_register_form goes on
FindNameInputs(r) ==
  /\ run[r].pc = "find_name_inputs" /\ run[r].attempt < NameMaxAttempts
  /\ \E visible_inputs \in NamePages :
       run' = [run EXCEPT ![r] =
         LET found == ProbeNameInputs(visible_inputs, @.first_name_input, @.last_name_input)
         IN IF @.late THEN Raise(@, TimeoutExceededException(@.state))
            ELSE IF found[1] # None /\ found[2] # None
                 THEN [@ EXCEPT !.pc = "fill_names", !.attempt = 0, !.first_name_input = found[1], !.last_name_input = found[2],
                                !.observed = @ \cup {"name_inputs"}]
                 ELSE [@ EXCEPT !.attempt = @ + 1, !.first_name_input = found[1], !.last_name_input = found[2]]]
  /\ UNCHANGED <<lock, lx, mp, dc, ve>>

\* _find_name_inputs returns an incomplete pair and _fill_register_form raises
FindNameInputsGiveUp(r) ==
  /\ run[r].pc = "find_name_inputs" /\ run[r].attempt = NameMaxAttempts
  /\ run' = [run EXCEPT ![r] = Fault(@, AssertionFailedException(@.state))]
  /\ UNCHANGED <<lock, lx, mp, dc, ve>>

\* the rest of _fill_register_form: both names are typed, each into its
\* input, then the continue button is clicked
FillNames(r) ==
  /\ run[r].pc = "fill_names"
  /\ \E c \in ContinuePages :
       run' = [run EXCEPT ![r] =
         LET filled == [@ EXCEPT !.observed = @ \cup {"names_typed"}, !.first_name_input = None, !.last_name_input = None]
         IN IF click_continue_button(c).raised THEN AfterContinue(Fault(filled, AssertionFailedException(filled.state)), c)
            ELSE AfterContinue(CheckTimeout(filled, "wait_for_confirmation_link"), c)]
  /\ UNCHANGED <<lock, lx, mp, dc, ve>>

\* a step that names the wrong member of RegisterState when it sets the state
WaitForConfirmationLink_Rewinds(r) ==
  /\ run[r].pc = "wait_for_confirmation_link"
  /\ run' = [run EXCEPT ![r] = SetState([@ EXCEPT !.pc = "poll", !.attempt = 0, !.seen_ids = {}, !.continue_call = None, !.lists = 0, !.sleeps = 0], "email_entered")]
  /\ UNCHANGED <<lock, lx, mp, dc, ve>>

\* _wait_for_confirmation_link up to its loop
WaitForConfirmationLink(r) ==
  /\ run[r].pc = "wait_for_confirmation_link"
  /\ run' = [run EXCEPT ![r] = SetState([@ EXCEPT !.pc = "poll", !.attempt = 0, !.seen_ids = {}, !.continue_call = None, !.lists = 0, !.sleeps = 0], "waiting_email")]
  /\ UNCHANGED <<lock, lx, mp, dc, ve>>

\* a loop that goes to its next iteration without the sleep when the listing raised
PollOnce_NoSleepAfterError(rec, listing, fetch, passes) ==
  IF rec.late THEN Raise(rec, TimeoutExceededException(rec.state))
  ELSE IF list_messages(MailboxClient(rec), listing).raised # None THEN [rec EXCEPT !.attempt = @ + 1, !.lists = @ + 1]
  ELSE LET messages == list_messages(MailboxClient(rec), listing).value[1]
           details == [id \in MsgIds |-> get_message(MailboxClient(rec), id, fetch[id]).value]
           scan == ScanMessages(messages, rec.seen_ids, rec.evals, rec.fetched, details)
           rec2 == [rec EXCEPT !.seen_ids = scan.seen_ids, !.evals = scan.evals, !.fetched = scan.fetched, !.lists = @ + 1]
       IN IF scan.link # None
          THEN CheckTimeout(Elapse(SetState([rec2 EXCEPT !.confirmation_link = scan.link, !.attempt = 0, !.seen_ids = {}, !.evals = NoCounts, !.lists = 0, !.sleeps = 0], "confirmation_link"), passes), "set_password")
          ELSE [rec2 EXCEPT !.attempt = @ + 1, !.sleeps = @ + 1]

\* one iteration of the loop of _wait_for_confirmation_link on the given
\* outcome of list_messages() and outcomes of get_message(): the list call,
\* the scan, and either the break with the link or the sleep (also after a
\* call that raised); the budget may run out between the check that opens
\* the iteration and the checkpoint after the step. The counts of the detail
\* requests stay with the run until the next step starts
PollOnce(rec, listing, fetch, passes) ==
  IF rec.late THEN Raise(rec, TimeoutExceededException(rec.state))
  ELSE IF list_messages(MailboxClient(rec), listing).raised # None THEN [rec EXCEPT !.attempt = @ + 1, !.lists = @ + 1, !.sleeps = @ + 1]
  ELSE LET messages == list_messages(MailboxClient(rec), listing).value[1]
           details == [id \in MsgIds |-> get_message(MailboxClient(rec), id, fetch[id]).value]
           scan == ScanMessages(messages, rec.seen_ids, rec.evals, rec.fetched, details)
           rec2 == [rec EXCEPT !.seen_ids = scan.seen_ids, !.evals = scan.evals, !.fetched = scan.fetched, !.lists = @ + 1]
       IN IF scan.link # None
          THEN CheckTimeout(Elapse(SetState([rec2 EXCEPT !.confirmation_link = scan.link, !.attempt = 0, !.seen_ids = {}, !.evals = NoCounts, !.lists = 0, !.sleeps = 0], "confirmation_link"), passes), "set_password")
          ELSE [rec2 EXCEPT !.attempt = @ + 1, !.sleeps = @ + 1]

\* the iteration reaches get_message only for a listed verification mail it
\* has not seen, and the checkpoint only with a link; otherwise their
\* outcomes play no part and one of them is enough
PollInputs(rec, listing) ==
  IF listing # None /\ \E i \in 1..Len(listing[1]) : listing[1][i].id \notin rec.seen_ids /\ IsVerificationEmail[listing[1][i]]
  THEN { in \in RunFetches \X BOOLEAN : in[2] => \E id \in MsgIds : in[1][id] # None /\ LinkOf[in[1][id][1]] # None }
  ELSE {<<[id \in MsgIds |-> None], FALSE>>}

PollAttempt(r) ==
  /\ run[r].pc = "poll" /\ run[r].attempt < EMAIL_POLL_MAX_ATTEMPTS
  /\ \E listing \in Listings : \E in \in PollInputs(run[r], listing) : run' = [run EXCEPT ![r] = PollOnce(@, listing, in[1], in[2])]
  /\ UNCHANGED <<lock, lx, mp, dc, ve>>

\* a loop that, out of attempts, goes on to the next step with no link
PollGiveUp_Proceeds(r) ==
  /\ run[r].pc = "poll" /\ run[r].attempt = EMAIL_POLL_MAX_ATTEMPTS
  /\ run' = [run EXCEPT ![r] = CheckTimeout(SetState([@ EXCEPT !.attempt = 0, !.seen_ids = {}, !.evals = NoCounts, !.lists = 0, !.sleeps = 0], "confirmation_link"), "set_password")]
  /\ UNCHANGED <<lock, lx, mp, dc, ve>>

\* the loop of _wait_for_confirmation_link ends without a link
PollGiveUp(r) ==
  /\ run[r].pc = "poll" /\ run[r].attempt = EMAIL_POLL_MAX_ATTEMPTS
  /\ run' = [run EXCEPT ![r] = Fault(@, TimeoutExceededException(@.state))]
  /\ UNCHANGED <<lock, lx, mp, dc, ve>>

\* a step 8 that is preceded by a _check_timeout() like the steps before it
ProceedToVerifyLogin_Checked(rec) == CheckTimeout(rec, "verify_login")

\* execute() goes from step 7 straight to step 8: no _check_timeout() after
\* _open_confirmation_link_and_set_password
ProceedToVerifyLogin(rec) == [rec EXCEPT !.pc = "verify_login"]

PASSWORD_KEYWORDS == <<"password", "passwort", "kennwort">>

\* inputs a confirmation page may carry, with their position on the page: two
\* password-typed inputs, a third one that lies above them and is reached
\* only by a later selector, one that only the keyword search reaches, a
\* hidden one, one that lies where p lies, and an email input
PasswordInputs ==
  [p |-> [id |-> "p", type |-> "password", autocomplete |-> "new-password", name |-> "password", placeholder |-> "", displayed |-> TRUE, x |-> 0, y |-> 2],
   q |-> [id |-> "q", type |-> "password", autocomplete |-> "", name |-> "confirm", placeholder |-> "", displayed |-> TRUE, x |-> 0, y |-> 3],
   n |-> [id |-> "n", type |-> "text", autocomplete |-> "", name |-> "passcode", placeholder |-> "", displayed |-> TRUE, x |-> 0, y |-> 1],
   k |-> [id |-> "k", type |-> "text", autocomplete |-> "", name |-> "", placeholder |-> "Ihr Kennwort", displayed |-> TRUE, x |-> 0, y |-> 4],
   h |-> [id |-> "h", type |-> "password", autocomplete |-> "", name |-> "password", placeholder |-> "", displayed |-> FALSE, x |-> 0, y |-> 0],
   d |-> [id |-> "d", type |-> "password", autocomplete |-> "", name |-> "", placeholder |-> "", displayed |-> TRUE, x |-> 0, y |-> 2],
   e |-> [id |-> "e", type |-> "email", autocomplete |-> "email", name |-> "email", placeholder |-> "E-Mail", displayed |-> TRUE, x |-> 0, y |-> 0]]

\* the inputs of a page in document order
PasswordPages ==
  LET i == PasswordInputs
  IN {<<>>, <<i.e, i.h>>, <<i.p>>, <<i.e, i.k>>, <<i.p, i.d>>, <<i.q, i.p, i.n>>}

\* the CSS selectors of _find_password_inputs, in their order
PasswordSelectors == <<"type=password", "autocomplete=new-password", "name*=password", "name*=pass", "placeholder*=password", "placeholder*=Password", "placeholder*=Passwort">>

\* whether selector number k matches the input, evaluated once
MatchesSelector ==
  [id \in DOMAIN PasswordInputs |-> [k \in 1..Len(PasswordSelectors) |->
     LET inp == PasswordInputs[id]
     IN CASE k = 1 -> inp.type = "password"
          [] k = 2 -> inp.autocomplete = "new-password"
          [] k = 3 -> Contains(inp.name, "password")
          [] k = 4 -> Contains(inp.name, "pass")
          [] k = 5 -> Contains(inp.placeholder, "password")
          [] k = 6 -> Contains(inp.placeholder, "Password")
          [] k = 7 -> Contains(inp.placeholder, "Passwort")]]

\* is_password_field of the wider search, evaluated once
IsPasswordField ==
  [id \in DOMAIN PasswordInputs |->
     LET inp == PasswordInputs[id]
     IN \/ Lower(inp.type) = "password"
        \/ \E i \in 1..Len(PASSWORD_KEYWORDS) : Contains(Lower(inp.placeholder), PASSWORD_KEYWORDS[i])
        \/ \E i \in 1..Len(PASSWORD_KEYWORDS) : Contains(Lower(inp.name), PASSWORD_KEYWORDS[i])]

RECURSIVE BySelectors(_, _)
\* the selector loop from selector k on: the displayed matches of each
\* selector in document order, one after the other. Every find_elements call
\* hands out new element objects, so the id() test never recognises an input
\* an earlier selector has matched
BySelectors(inputs, k) ==
  IF k > Len(PasswordSelectors) THEN <<>>
  ELSE SelectSeq(inputs, LAMBDA inp : inp.displayed /\ MatchesSelector[inp.id][k]) \o BySelectors(inputs, k + 1)

RECURSIVE UniqueByLocation(_, _)
\* the inputs whose (x, y) no earlier input of the list has
UniqueByLocation(password_inputs, seen_locations) ==
  IF password_inputs = <<>> THEN <<>>
  ELSE LET inp == Head(password_inputs)
       IN IF <<inp.x, inp.y>> \in seen_locations THEN UniqueByLocation(Tail(password_inputs), seen_locations)
          ELSE <<inp>> \o UniqueByLocation(Tail(password_inputs), seen_locations \cup {<<inp.x, inp.y>>})

RECURSIVE SortByY(_)
\* list.sort(key=lambda x: x.location['y']): stable, ascending, by insertion
SortByY(unique_inputs) ==
  IF unique_inputs = <<>> THEN <<>>
  ELSE LET sorted == SortByY(SubSeq(unique_inputs, 1, Len(unique_inputs) - 1))
           last == unique_inputs[Len(unique_inputs)]
           before == SelectSeq(sorted, LAMBDA inp : inp.y <= last.y)
           after == SelectSeq(sorted, LAMBDA inp : inp.y > last.y)
       IN before \o <<last>> \o after

\* a finder that returns the inputs in the order the selectors met them
find_password_inputs_Unsorted(inputs) ==
  LET by_selectors == BySelectors(inputs, 1)
      password_inputs == IF by_selectors # <<>> THEN by_selectors ELSE SelectSeq(inputs, LAMBDA inp : inp.displayed /\ IsPasswordField[inp.id])
  IN UniqueByLocation(password_inputs, {})

\* _find_password_inputs: the selector loop, else the wider search over all
\* displayed inputs, then one input per location, sorted from top to bottom
find_password_inputs(inputs) ==
  LET by_selectors == BySelectors(inputs, 1)
      password_inputs == IF by_selectors # <<>> THEN by_selectors ELSE SelectSeq(inputs, LAMBDA inp : inp.displayed /\ IsPasswordField[inp.id])
  IN SortByY(UniqueByLocation(password_inputs, {}))

\* _find_password_inputs on each page, evaluated once
FindPasswordInputs == [inputs \in PasswordPages |-> find_password_inputs(inputs)]

\* the page at the first search and the page at the search after the delay;
\* the second plays no part when the first search finds an input
PasswordLoads ==
  LET i == PasswordInputs
  IN { <<first, first>> : first \in { inputs \in PasswordPages : FindPasswordInputs[inputs] # <<>> } }
     \cup { <<<<>>, <<>>>>, <<<<i.e, i.h>>, <<i.e, i.k>>>>, <<<<i.e, i.h>>, <<i.q, i.p, i.n>>>> }

\* _open_confirmation_link_and_set_password: the state is set first, then the
\* link is loaded, the password inputs are looked for (twice if the first
\* search finds none) and filled, and the set-password button, or for want of
\* one the continue button, is clicked
OpenConfirmationLinkAndSetPassword(r) ==
  /\ run[r].pc = "set_password"
  /\ \E loaded \in BOOLEAN, load \in PasswordLoads, set_password_btn \in BOOLEAN, c \in { p \in ContinuePages : ~p.raises /\ Len(p.buttons) = 2 } :
       /\ ~loaded => load = <<<<>>, <<>>>>
       /\ (~loaded \/ set_password_btn \/ (FindPasswordInputs[load[1]] = <<>> /\ FindPasswordInputs[load[2]] = <<>>)) => c = [buttons |-> <<ContinueButtons.g, ContinueButtons.x>>, raises |-> FALSE]
       /\ (~loaded \/ (FindPasswordInputs[load[1]] = <<>> /\ FindPasswordInputs[load[2]] = <<>>)) => ~set_password_btn
       /\ run' = [run EXCEPT ![r] =
            LET entered == SetState([@ EXCEPT !.fetched = NoCounts], "set_password")
                password_inputs == IF FindPasswordInputs[load[1]] # <<>> THEN FindPasswordInputs[load[1]] ELSE FindPasswordInputs[load[2]]
                located == [entered EXCEPT !.observed = @ \cup {"password_field"}]
                typed == Some([load |-> load, typed |-> (IF Len(password_inputs) >= 2 THEN <<password_inputs[1].id, password_inputs[2].id>> ELSE <<password_inputs[1].id>>), text |-> @.password])
                clicked == [located EXCEPT !.observed = @ \cup {"set_password_control"}]
            IN IF ~loaded THEN Fault(entered, OtherException("TimeoutException"))
               ELSE IF password_inputs = <<>>
                    THEN [Fault(entered, AssertionFailedException(entered.state)) EXCEPT !.password_call = Some([load |-> load, typed |-> <<>>, text |-> ""])]
               ELSE IF set_password_btn THEN [ProceedToVerifyLogin(clicked) EXCEPT !.password_call = typed]
               ELSE IF click_continue_button(c).raised
                    THEN AfterContinue([Fault(located, AssertionFailedException(located.state)) EXCEPT !.password_call = typed], c)
               ELSE AfterContinue([ProceedToVerifyLogin(clicked) EXCEPT !.password_call = typed], c)]
  /\ UNCHANGED <<lock, lx, mp, dc, ve>>

\* what the page answers to successive waits for window.cwInfo.user: the
\* object appears in time, or the wait times out
UserInfoWaits == {<<"appears">>, <<"timeout", "appears">>, <<"timeout", "timeout">>}

\* _verify_login_and_extract_credentials: its first wait evaluates
\* Config.PAGE_WAIT_TIMEOUT, a name the module never binds, so the step
\* raises NameError before any cookie or user-info wait is made, whatever
\* the page would have answered
VerifyLoginAndExtractCredentials(r) ==
  /\ run[r].pc = "verify_login"
  /\ \E user_info \in UserInfoWaits :
       run' = [run EXCEPT ![r] =
         [Raise(SetState(@, "verify_login"), OtherException("NameError")) EXCEPT !.verify_call = Some([user_info |-> user_info, waits |-> 0, refreshes |-> 0])]]
  /\ UNCHANGED <<lock, lx, mp, dc, ve>>

\* what the post-registration webhook may do: raise, answer an error status, answer 2xx
WebhookOutcomes == {"raises", "status_500", "status_200"}

\* _call_post_register_api: logs whatever happens and returns
call_post_register_api(o) == "returned"

\* what the user-settings endpoint may do: raise, answer an error status,
\* answer 200 with hasProAccess true, false or absent
LookupOutcomes == {"raises", "status_500", "true", "false", "absent"}

\* _get_user_pro_access: the hasProAccess of a 200 answer, else None
get_user_pro_access(o) == CASE o = "true" -> Some(TRUE) [] o = "false" -> Some(FALSE) [] OTHER -> None

\* except clauses that wrap every exception, the run's own errors included
ExecuteExcept_WrapsAll(r) ==
  /\ run[r].pc = "except"
  /\ run' = [run EXCEPT ![r] =
       LET failed == SetState(@, "failed")
       IN [failed EXCEPT !.pc = "finally_release", !.exc = Some(AutoRegisterException(500, failed.state))]]
  /\ UNCHANGED <<lock, lx, mp, dc, ve>>

\* the except clauses of execute()
ExecuteExcept(r) ==
  /\ run[r].pc = "except"
  /\ run' = [run EXCEPT ![r] =
       LET failed == SetState(@, "failed")
       IN IF IsAutoRegisterException(@.exc[1]) THEN [failed EXCEPT !.pc = "finally_release"]
          ELSE [failed EXCEPT !.pc = "finally_release", !.exc = Some(AutoRegisterException(500, failed.state))]]
  /\ UNCHANGED <<lock, lx, mp, dc, ve>>

\* what handle_autoregister still uses of a run once execute() has exited:
\* the pending exception, its status, and auto_register.driver
Exited(rec) == [RunIdle EXCEPT !.status = rec.exc[1].code, !.exc = rec.exc, !.state = rec.state, !.driver = rec.driver,
                               !.opened = rec.opened, !.quits = rec.quits, !.releases = rec.releases]

\* a finally block that leaves the lock held
FinallyRelease_KeepsLock(r) ==
  /\ run[r].pc = "finally_release"
  /\ lock' = lock
  /\ run' = [run EXCEPT ![r] = [Exited(@) EXCEPT !.pc = "finally_cleanup", !.releases = @ + 1]]
  /\ UNCHANGED <<lx, mp, dc, ve>>

\* finally: _autoregister_lock.release()
FinallyRelease(r) ==
  /\ run[r].pc = "finally_release"
  /\ lock' = FALSE
  /\ run' = [run EXCEPT ![r] = [Exited(@) EXCEPT !.pc = "finally_cleanup", !.releases = @ + 1]]
  /\ UNCHANGED <<lx, mp, dc, ve>>

\* a cleanup that leaves the browser session alone
Cleanup_KeepsDriver(rec) == rec

\* AutoRegister._cleanup
Cleanup(rec) == IF rec.driver = "open" THEN [rec EXCEPT !.driver = "none", !.quits = @ + 1] ELSE rec

\* finally: auto_register._cleanup(), after which the pending exception leaves
\* handle_autoregister and only its status is left with the caller
FinallyCleanup(r) ==
  /\ run[r].pc = "finally_cleanup"
  /\ run' = [run EXCEPT ![r] = [Cleanup(@) EXCEPT !.pc = "returned", !.exc = None]]
  /\ UNCHANGED <<lock, lx, mp, dc, ve>>

(***************************************************************************)
(* MailPoller.wait_for_verification_email (duckmail_client.py), run next   *)
(* to the polling loop of a run on one and the same mailbox.               *)
(***************************************************************************)
MaxPolls == 2

\* what list_messages() may give a poller: None when it raises, else a list of summaries
PollListings == {None} \cup { Some(l) : l \in BoundedSeq(RunMessages, MaxListing) }

\* the outcome of the k-th list_messages() call, for k = 1..MaxPolls
Scripts == [1..MaxPolls -> PollListings]

MpIdle == [pc |-> "idle", script |-> <<>>, polls |-> 0, seen_ids |-> {}, evals |-> NoCounts, expired |-> FALSE, result |-> None,
           details |-> [id \in MsgIds |-> None], link |-> None]

\* wait_for_verification_email has been called on a mailbox that will list script
MpCalled(script) == [MpIdle EXCEPT !.pc = "polling", !.script = script]

\* a poller that forgets which ids it has examined
PollerAlreadySeen_Never(id, seen_ids) == FALSE

\* wait_for_verification_email skips a listed message whose id it has examined
PollerAlreadySeen(id, seen_ids) == id \in seen_ids

RECURSIVE ScanForVerification(_, _, _)
\* the body of "for msg in messages" in wait_for_verification_email: the ids
\* examined, the predicate evaluations per id and the first match (if any)
ScanForVerification(messages, seen_ids, evals) ==
  IF messages = <<>> THEN [seen_ids |-> seen_ids, evals |-> evals, match |-> None]
  ELSE LET msg == Head(messages)
           seen2 == seen_ids \cup {msg.id}
           evals2 == [evals EXCEPT ![msg.id] = @ + 1]
       IN IF PollerAlreadySeen(msg.id, seen_ids) THEN ScanForVerification(Tail(messages), seen_ids, evals)
          ELSE IF IsVerificationEmail[msg] THEN [seen_ids |-> seen2, evals |-> evals2, match |-> Some(msg)]
          ELSE ScanForVerification(Tail(messages), seen2, evals2)

\* a poller that gives up when the listing call raises
PollerListingFailed_Returns(m) == [m EXCEPT !.polls = @ + 1, !.pc = "returned"]

\* except Exception in the loop of wait_for_verification_email: the error is
\* logged, then the sleep and the next iteration follow
PollerListingFailed(m) == [m EXCEPT !.polls = @ + 1]

\* one iteration of the while loop of wait_for_verification_email
MpPoll ==
  /\ mp.pc = "polling" /\ ~mp.expired /\ mp.polls < MaxPolls
  /\ LET listing == mp.script[mp.polls + 1]
         scan == ScanForVerification(listing[1], mp.seen_ids, mp.evals)
     IN mp' = IF listing = None THEN PollerListingFailed(mp)
              ELSE IF scan.match # None THEN [mp EXCEPT !.polls = @ + 1, !.seen_ids = scan.seen_ids, !.evals = scan.evals, !.result = scan.match, !.pc = "returned"]
              ELSE [mp EXCEPT !.polls = @ + 1, !.seen_ids = scan.seen_ids, !.evals = scan.evals]
  /\ UNCHANGED <<lock, run, lx, dc, ve>>

\* the wall clock passes start_time + timeout_seconds
MpExpire ==
  /\ mp.pc = "polling" /\ ~mp.expired
  /\ mp' = [mp EXCEPT !.expired = TRUE]
  /\ UNCHANGED <<lock, run, lx, dc, ve>>

\* a poller that may return None before its timeout has elapsed
MpTimeout_Early ==
  /\ mp.pc = "polling"
  /\ mp' = [mp EXCEPT !.pc = "returned", !.result = None]
  /\ UNCHANGED <<lock, run, lx, dc, ve>>

\* the while condition fails: wait_for_verification_email returns None
MpTimeout ==
  /\ mp.pc = "polling" /\ mp.expired
  /\ mp' = [mp EXCEPT !.pc = "returned", !.result = None]
  /\ UNCHANGED <<lock, run, lx, dc, ve>>

\* one iteration of the loop of _wait_for_confirmation_link on the mailbox of
\* mp; while the loop goes on, the run's record also tells for which ids
\* get_message has raised so far and what the mailbox had to offer for each
\* id during this iteration
PollScripted(r) ==
  /\ run[r].pc = "poll" /\ run[r].attempt < MaxPolls
  /\ \E fetch \in RunFetches, passes \in BOOLEAN :
       \E after \in {PollOnce(run[r], mp.script[run[r].attempt + 1], fetch, passes)} :
         run' = [run EXCEPT ![r] =
           IF after.pc = "poll" THEN [after EXCEPT !.fetch_raised = @ \cup { id \in MsgIds : after.fetched[id] > run[r].fetched[id] /\ fetch[id] = None }, !.offered = Some(fetch)]
           ELSE after]
  /\ UNCHANGED <<lock, lx, mp, dc, ve>>

\* a run of request 1 that has entered the loop of _wait_for_confirmation_link
PollingRun ==
  [NewAutoRegister(RequestPassword(1)) EXCEPT
     !.pc = "poll", !.state = "waiting_email", !.account = Some(NewAddress(1)), !.token = TRUE,
     !.email = Some(NewAddress(1)), !.typed = Some(NewAddress(1)), !.driver = "open", !.opened = 1,
     !.visited = <<"init", "duckmail_created", "site_opened", "login_entry", "email_entered", "branch_detected", "register_form", "waiting_email">>]

(***************************************************************************)
(* MailPoller.get_confirmation_link and the loop of a run, on one mailbox  *)
(* that lists by a script and serves one detail (or an error) per id.      *)
(***************************************************************************)
\* what list_messages() may give in this mailbox, which holds two
\* verification mails with different ids: an error, nothing, the first mail,
\* the second, or both
ResolveListings ==
  LET m1 == CHOOSE m \in Messages : m.from_address = "NoReply@chayns.de" /\ m.id = "1"
      m2 == CHOOSE m \in Messages : m.from_address = "NoReply@chayns.de" /\ m.id = "2"
  IN {None, Some(<<>>), Some(<<m1>>), Some(<<m2>>), Some(<<m1, m2>>)}

\* get_confirmation_link after wait_for_verification_email has returned: None
\* without a message or when get_message raises, else what
\* extract_confirmation_link makes of the detail
GetConfirmationLink(m) ==
  IF m.result = None THEN None
  ELSE IF get_message([account |-> Some("a"), token |-> TRUE], m.result[1].id, m.details[m.result[1].id]).value = None THEN None
  ELSE LinkOf[get_message([account |-> Some("a"), token |-> TRUE], m.result[1].id, m.details[m.result[1].id]).value[1]]

\* steps 2 and 3 of get_confirmation_link
MpResolve ==
  /\ mp.pc = "returned"
  /\ mp' = [mp EXCEPT !.pc = "resolved", !.link = GetConfirmationLink(mp)]
  /\ UNCHANGED <<lock, run, lx, dc, ve>>

\* one iteration of the loop of _wait_for_confirmation_link on the mailbox of mp
PollShared(r) ==
  /\ run[r].pc = "poll" /\ run[r].attempt < MaxPolls
  /\ \E passes \in BOOLEAN : run' = [run EXCEPT ![r] = PollOnce(@, mp.script[run[r].attempt + 1], mp.details, passes)]
  /\ UNCHANGED <<lock, lx, mp, dc, ve>>

(***************************************************************************)
(* A DuckMailClient called in any order by code outside the runs.          *)
(***************************************************************************)
DcIdle == [client |-> NewClient, last |-> [op |-> "-", address |-> None, raised |-> None, sent |-> FALSE]]

\* the client after a call and what the call did
DcAfter(op, address, outcome) == [client |-> outcome.client, last |-> [op |-> op, address |-> address, raised |-> outcome.raised, sent |-> outcome.sent]]

DcCreateAccount ==
  /\ \E a \in CreateAnswers : dc' = DcAfter("create_account", None, create_account(dc.client, "free@duckmail.sbs", a))
  /\ UNCHANGED <<lock, run, lx, mp, ve>>

\* get_token() for the current account, or get_token(address, password) for a given one
DcGetToken ==
  /\ \E address \in {None, Some("other@duckmail.sbs")}, t \in TokenAnswers : dc' = DcAfter("get_token", address, get_token(dc.client, address, t))
  /\ UNCHANGED <<lock, run, lx, mp, ve>>

DcListMessages ==
  /\ \E listing \in Listings : dc' = DcAfter("list_messages", None, list_messages(dc.client, listing))
  /\ UNCHANGED <<lock, run, lx, mp, ve>>

DcGetMessage ==
  /\ \E id \in MsgIds, answer \in {None} \cup { Some(d) : d \in MailDetails } : dc' = DcAfter("get_message", None, get_message(dc.client, id, answer))
  /\ UNCHANGED <<lock, run, lx, mp, ve>>

RunStep(r) ==
  \/ Admit(r) \/ TimePasses(r) \/ InitDuckmail(r) \/ OpenSite(r) \/ LoginEntry(r) \/ EnterEmail(r)
  \/ DetectBranchProbe(r) \/ DetectBranchGiveUp(r) \/ FillRegisterForm(r) \/ FindNameInputs(r)
  \/ FindNameInputsGiveUp(r) \/ FillNames(r) \/ WaitForConfirmationLink(r) \/ PollAttempt(r)
  \/ PollGiveUp(r) \/ OpenConfirmationLinkAndSetPassword(r) \/ VerifyLoginAndExtractCredentials(r)
  \/ ExecuteExcept(r) \/ FinallyRelease(r) \/ FinallyCleanup(r)

Init == lock = FALSE /\ run = [r \in Requests |-> RunIdle] /\ lx = LxIdle /\ mp = MpIdle /\ dc = DcIdle /\ ve = VeIdle

Next == \E r \in Requests : RunStep(r)

Spec == Init /\ [][Next]_vars

\* the steps of an admitted request: the statements of execute() and of the
\* finally block of handle_autoregister, each of which is run by the
\* request's thread once the call before it has returned or raised
Advance(r) ==
  \/ InitDuckmail(r) \/ OpenSite(r) \/ LoginEntry(r) \/ EnterEmail(r)
  \/ DetectBranchProbe(r) \/ DetectBranchGiveUp(r) \/ FillRegisterForm(r) \/ FindNameInputs(r)
  \/ FindNameInputsGiveUp(r) \/ FillNames(r) \/ WaitForConfirmationLink(r) \/ PollAttempt(r)
  \/ PollGiveUp(r) \/ OpenConfirmationLinkAndSetPassword(r) \/ VerifyLoginAndExtractCredentials(r)
  \/ ExecuteExcept(r) \/ FinallyRelease(r) \/ FinallyCleanup(r)

\* the requests that contend for the lock in SpecLive
Contenders == {1, 2}

NextLive == \E r \in Contenders : RunStep(r)

\* the runs of two contending requests when every external call returns or
\* raises: an admitted request keeps taking its steps; requests arrive, and
\* time passes, as they will
SpecLive == Init /\ [][NextLive]_vars /\ \A r \in Contenders : WF_vars(Advance(r))

InitLink == lock = FALSE /\ run = [r \in Requests |-> RunIdle] /\ mp = MpIdle /\ dc = DcIdle /\ ve = VeIdle /\ lx \in { LxCall(d) : d \in Details }

NextLink == LxExtract

SpecLink == InitLink /\ [][NextLink]_vars

InitPoll == lock = TRUE /\ run = [r \in Requests |-> IF r = 1 THEN PollingRun ELSE RunIdle] /\ lx = LxIdle /\ dc = DcIdle /\ ve = VeIdle /\ mp \in { MpCalled(script) : script \in Scripts }

NextPoll == MpPoll \/ MpExpire \/ MpTimeout \/ PollScripted(1) \/ TimePasses(1)

SpecPoll == InitPoll /\ [][NextPoll]_vars

InitResolve ==
  /\ lock = TRUE /\ run = [r \in Requests |-> IF r = 1 THEN PollingRun ELSE RunIdle] /\ lx = LxIdle /\ dc = DcIdle /\ ve = VeIdle
  /\ mp \in { [MpIdle EXCEPT !.pc = "polling", !.script = script, !.details = details] : script \in [1..MaxPolls -> ResolveListings], details \in Fetches }

NextResolve == MpPoll \/ MpExpire \/ MpTimeout \/ MpResolve \/ PollShared(1)

SpecResolve == InitResolve /\ [][NextResolve]_vars

NextClient == DcCreateAccount \/ DcGetToken \/ DcListMessages \/ DcGetMessage \/ RunStep(1)

SpecClient == Init /\ [][NextClient]_vars

InitMatch ==
  /\ lock = FALSE /\ run = [r \in Requests |-> RunIdle] /\ lx = LxIdle /\ mp = MpIdle /\ dc = DcIdle
  /\ ve \in { VeCall([id |-> "1", from_address |-> a, subject |-> s], p, w) :
                 a \in {"noreply@chayns.de", "NoReply@Chayns.DE", "no-reply@chayns.de", "shop@ads.test", "noreply@chayns.de.evil.test", ""},
                 s \in {"Hello", "Welcome to chayns", "WELCOME TO CHAYNS!", "Please Verify your account", "random", "Bitte bestätigen"},
                 p \in {None, Some(<<>>), Some(<<"hello", "Account">>)},
                 w \in {None, Some(<<>>), Some(<<"Shop@Ads.Test">>)} }

NextMatch == VeReturn

SpecMatch == InitMatch /\ [][NextMatch]_vars

(***************************************************************************)
(* Properties of the runs (Spec).                                          *)
(***************************************************************************)
\* execute() has exited (returned or raised) and handle_autoregister has not yet released the lock
ExecuteExited(r) == run[r].pc = "finally_release"

\* the number of times the run entered state st
TimesEntered(r, st) == Cardinality({ i \in 1..Len(run[r].visited) : run[r].visited[i] = st })

\* C1: a run in which every external call succeeded, the site showed the
\* new-user signals and the time budget held ends in COMPLETE, entered once,
\* with no error, the email of the created mailbox and the requested (or
\* default) password.
C1_HealthyRunCompletes ==
  \A r \in Requests : ExecuteExited(r) /\ run[r].healthy =>
    /\ run[r].state = "complete" /\ TimesEntered(r, "complete") = 1 /\ run[r].exc = None
    /\ run[r].email = run[r].account /\ run[r].email # None
    /\ run[r].password = (IF run[r].req_password # None THEN run[r].req_password[1] ELSE DEFAULT_PASSWORD)

\* C2: at most one execute() is in progress at any time.
C2_OneRunAtATime == Cardinality({ r \in Requests : InExecute(r) }) <= 1

\* C2 witness: one run is executing after another request has come and gone
C2_Witness == \E r, q \in Requests : r # q /\ InExecute(r) /\ run[r].state = "waiting_email" /\ run[q].pc = "returned"

\* handle_autoregister is in progress for the request: it was admitted and
\* has neither returned nor raised yet (its finally block included)
InProgress(r) == run[r].pc \notin {"idle", "returned"}

\* C3: a request that arrives while the handle_autoregister call of another
\* request is in progress is rejected at once with status 503 and changes
\* nothing else; a request that arrives while no other call is in progress is
\* admitted; so of two requests that overlap in time exactly one proceeds
\* into the run, and none waits.
C3_OverlapRejectedAtOnce ==
  [][\A r \in Requests : run[r].pc = "idle" /\ run'[r].pc # "idle" =>
       IF \E q \in Requests \ {r} : InProgress(q)
       THEN run'[r] = Returned(503) /\ lock' = lock /\ \A q \in Requests \ {r} : run'[q] = run[q]
       ELSE run'[r].pc = "init_duckmail" /\ lock']_vars

\* handle_autoregister has returned or raised for an admitted request
AdmittedDone(r) == run[r].pc = "returned" /\ run[r].status # 503

\* C4: when handle_autoregister leaves an admitted run, the permit has been
\* released exactly once and the browser session the run opened (if any) has
\* been torn down exactly once; neither happens more than once at any time.
C4_CleanupExactlyOnce ==
  \A r \in Requests :
    /\ run[r].releases <= 1 /\ run[r].quits <= run[r].opened /\ run[r].opened <= 1
    /\ AdmittedDone(r) => run[r].releases = 1 /\ run[r].quits = run[r].opened /\ run[r].driver = "none"

\* C4 witness: a run that failed with a timeout after opening its browser has left
C4_Witness == \E r \in Requests : AdmittedDone(r) /\ run[r].status = 504 /\ run[r].opened = 1 /\ run[r].quits = 1 /\ run[r].releases = 1

\* C5: once a probe has observed a visible password input, the run is ending
\* with the already-exists error (409) carrying the email typed into the
\* login form, and the state never became REGISTER_FORM (nor BRANCH_DETECTED),
\* whatever other signals the same probe observed.
C5_PasswordInputMeansExists ==
  \A r \in Requests : run[r].probe # None /\ run[r].probe[1].password =>
    /\ run[r].exc # None /\ run[r].exc[1].type = "EmailExistsException" /\ run[r].exc[1].code = 409
    /\ run[r].typed # None /\ run[r].exc[1].email = run[r].typed[1]
    /\ TimesEntered(r, "register_form") = 0 /\ TimesEntered(r, "branch_detected") = 0
    /\ run[r].state \in {"email_entered", "failed"}

\* C5 witness: the probe saw the password input together with both new-user signals
C5_Witness == \E r \in Requests : ExecuteExited(r) /\ run[r].probe = Some([password |-> TRUE, keyword |-> TRUE, name_inputs |-> TRUE]) /\ run[r].exc[1].code = 409

\* the run entered state st at some time
Entered(r, st) == TimesEntered(r, st) > 0

\* C11: once the password-setting step has been entered the run is never
\* ended by the time budget: however late it is, no timeout error (504) is
\* pending when execute() raises, and execute() exits in COMPLETE or with a
\* step failure (422 or 500).
C11_NoTimeoutAfterSetPassword ==
  \A r \in Requests : Entered(r, "set_password") /\ run[r].pc \in {"except", "finally_release"} =>
    /\ run[r].exc # None => run[r].exc[1].type # "TimeoutExceededException" /\ run[r].exc[1].code # 504
    /\ ExecuteExited(r) => run[r].state \in {"complete", "failed"} /\ (run[r].exc # None => run[r].exc[1].code \in {422, 500})

\* C11 witness: the budget ran out after the password step was entered, the
\* run went on into the login verification and left with a step failure
C11_Witness ==
  \E r \in Requests : ExecuteExited(r) /\ run[r].late /\ Entered(r, "set_password") /\ Entered(r, "verify_login") /\ run[r].exc[1].code = 500

\* the positions of execute() up to the checkpoint that follows _wait_for_confirmation_link
BeforeSetPassword == {"init_duckmail", "open_site", "login_entry", "enter_email", "detect_branch", "fill_register_form",
                      "find_name_inputs", "fill_names", "wait_for_confirmation_link", "poll"}

\* the moves inside one step function that pass no checkpoint
WithinStep == {<<"open_site", "login_entry">>, <<"fill_register_form", "find_name_inputs">>, <<"wait_for_confirmation_link", "poll">>}

\* C12: before the password-setting step a run whose time budget is exceeded
\* gets no further than the next checkpoint: its next move either stays inside
\* the current step function, or is a failure of that step itself, or is the
\* timeout error with code 504 whose state label is the state current at the
\* checkpoint; it never enters the next step.
C12_TimeoutAtEveryCheckpoint ==
  [][\A r \in Requests : run[r].late /\ run[r].pc \in BeforeSetPassword /\ run'[r] # run[r] =>
       \/ <<run[r].pc, run'[r].pc>> \in WithinStep
       \/ /\ run'[r].pc = "except"
          /\ \/ run'[r].exc[1].type \in {"AssertionFailedException", "EmailExistsException"} \cup {"HTTPError", "WebDriverException", "TimeoutException"}
             \/ run'[r].exc[1] = TimeoutExceededException(run'[r].state) /\ run'[r].exc[1].code = 504 /\ run'[r].exc[1].code # AssertionFailedException(run'[r].state).code]_vars

\* C12 witness: the checkpoint after branch detection raised the timeout error
C12_Witness ==
  \E r \in Requests : run[r].pc = "except" /\ run[r].late /\ run[r].state = "branch_detected" /\ run[r].exc = Some(TimeoutExceededException("branch_detected"))

\* C13: a fault that is none of the run's structured errors leaves execute()
\* as a structured error with code 500 whose state label is the state the run
\* was in when the fault occurred.
C13_FaultsCarryFailingState ==
  \A r \in Requests : ExecuteExited(r) /\ run[r].exc # None /\ run[r].exc[1].type = "AutoRegisterException" =>
    /\ run[r].exc[1].code = 500
    /\ Len(run[r].visited) >= 2 /\ run[r].state = "failed"
    /\ run[r].exc[1].state = run[r].visited[Len(run[r].visited) - 1]

\* the run's record is that of a run inside execute() or just out of it
FullRecord(r) == InExecute(r) \/ ExecuteExited(r)

\* C14: a later state is current only after its precondition was observed:
\* REGISTER_FORM only with the name inputs located, SET_PASSWORD only with a
\* password field located on the confirmation page, VERIFY_LOGIN only with
\* the set-password control activated.
C14_StateAfterPreconditions ==
  \A r \in Requests : FullRecord(r) =>
    /\ run[r].state = "register_form" => "name_inputs" \in run[r].observed
    /\ run[r].state = "set_password" => "password_field" \in run[r].observed
    /\ run[r].state = "verify_login" => "set_password_control" \in run[r].observed

\* the members of RegisterState in the order of the workflow, FAILED apart
RegisterStateOrder == <<"init", "duckmail_created", "site_opened", "login_entry", "email_entered", "branch_detected",
                        "register_form", "waiting_email", "confirmation_link", "set_password", "verify_login", "complete">>

Rank(st) == CHOOSE i \in 1..Len(RegisterStateOrder) : RegisterStateOrder[i] = st

\* C15: within a run the state changes only to the next state of the order
\* INIT .. COMPLETE, or to FAILED from a state that is neither COMPLETE nor
\* FAILED; a new run starts in INIT.
C15_StateOnlyMovesForward ==
  [][\A r \in Requests : run'[r].state # run[r].state =>
       IF run[r].pc = "idle" THEN run'[r].state = "init"
       ELSE \/ run'[r].state = "failed" /\ run[r].state \notin {"complete", "failed"}
            \/ /\ run[r].state \notin {"complete", "failed"} /\ run'[r].state \notin {"failed", "-"}
               /\ Rank(run'[r].state) = Rank(run[r].state) + 1]_vars

\* C15 witness: a run went through every state up to VERIFY_LOGIN in order and then to FAILED
C15_Witness ==
  \E r \in Requests : ExecuteExited(r) /\ run[r].visited = SubSeq(RegisterStateOrder, 1, 11) \o <<"failed">>

\* C16: a structured step error pending when execute() raises is still the
\* pending error, unchanged, through the except clause and the finally block
\* of handle_autoregister, its status is the status the caller gets, and the
\* state of a run that left execute() with an error is FAILED.
C16_StepErrorsReachCallerUnchanged ==
  [][\A r \in Requests :
       /\ run[r].pc = "except" /\ run'[r].pc # "except" =>
            run'[r].state = "failed" /\ (IsAutoRegisterException(run[r].exc[1]) => run'[r].exc = run[r].exc)
       /\ run[r].pc = "finally_release" /\ run'[r].pc # "finally_release" /\ run[r].exc # None =>
            run'[r].exc = run[r].exc /\ run'[r].state = "failed"
       /\ run[r].pc = "finally_cleanup" /\ run'[r].pc # "finally_cleanup" /\ run[r].exc # None =>
            run'[r].pc = "returned" /\ run'[r].status = run[r].exc[1].code /\ run'[r].state = "failed"]_vars

\* C16 witness: the already-exists error of a run is pending, as raised, in the finally block
C16_Witness ==
  \E r \in Requests : run[r].pc = "finally_cleanup" /\ run[r].state = "failed" /\ run[r].exc = Some(EmailExistsException(NewAddress(r)))

\* C17: whatever the webhook and the pro-access lookup do, a run whose
\* mailbox, browser and site calls all succeeded and that went into the login
\* verification leaves execute() in COMPLETE with a result carrying its email
\* and password and a has_pro_access that the lookup can produce.
C17_SideEffectFailuresDoNotFailRun ==
  \A r \in Requests : ExecuteExited(r) /\ run[r].healthy /\ Entered(r, "verify_login") =>
    /\ \A w \in WebhookOutcomes : call_post_register_api(w) = "returned"
    /\ run[r].state = "complete" /\ run[r].exc = None /\ run[r].result # None
    /\ run[r].result[1].email = run[r].email[1] /\ run[r].result[1].password = run[r].password
    /\ run[r].result[1].has_pro_access \in { get_user_pro_access(o) : o \in LookupOutcomes }

\* C19: once assigned the run's email never changes, and the address typed
\* into the login form, the address of an already-exists error and the email
\* of the result are that address.
C19_EmailImmutable ==
  [][\A r \in Requests : FullRecord(r) =>
       /\ run[r].email # None /\ FullRecord(r)' => run'[r].email = run[r].email
       /\ run[r].typed # None => run[r].typed = run[r].email
       /\ run[r].exc # None /\ run[r].exc[1].type = "EmailExistsException" => run[r].email # None /\ run[r].exc[1].email = run[r].email[1]
       /\ run[r].result # None => run[r].result[1].email = run[r].email[1]]_vars

\* C19 witness: the address assigned at mailbox creation was typed and came back in the already-exists error
C19_Witness ==
  \E r \in Requests : ExecuteExited(r) /\ run[r].email = Some(NewAddress(r)) /\ run[r].typed = run[r].email
                        /\ run[r].exc[1].type = "EmailExistsException" /\ run[r].exc[1].email = NewAddress(r)

\* C22: a polling loop that has used its EMAIL_POLL_MAX_ATTEMPTS attempts
\* without a link makes no further attempt: the next thing the run does is
\* fail with the timeout error, code 504, labelled WAITING_EMAIL, and a run
\* with that error pending never entered CONFIRMATION_LINK.
C22_PollExhaustedIsTimeout ==
  [][\A r \in Requests :
       /\ run[r].pc = "poll" => run[r].attempt <= EMAIL_POLL_MAX_ATTEMPTS /\ run[r].confirmation_link = None
       /\ run[r].pc = "poll" /\ run[r].attempt = EMAIL_POLL_MAX_ATTEMPTS /\ run'[r] # run[r] /\ run'[r] # Elapse(run[r], TRUE) =>
            /\ run'[r].pc = "except" /\ run'[r].exc = Some(TimeoutExceededException("waiting_email"))
            /\ run'[r].exc[1].code = 504 /\ run'[r].state = "waiting_email"
       /\ FullRecord(r)' /\ run'[r].exc # None /\ run'[r].exc[1].type = "TimeoutExceededException" /\ run'[r].exc[1].state = "waiting_email" =>
            ~Entered(r, "confirmation_link")' /\ run'[r].confirmation_link = None]_vars

\* C22 witness: with time left on the global budget, the loop ran out of
\* attempts and the run left execute() with the timeout error
C22_Witness ==
  \E r \in Requests : ExecuteExited(r) /\ ~run[r].late /\ run[r].exc = Some(TimeoutExceededException("waiting_email"))
                        /\ run[r].state = "failed" /\ ~Entered(r, "confirmation_link")

\* C30: the registration form is filled only once two suitable name inputs
\* were found, one for each name; a search that used its attempts without
\* finding two ends in the assertion error, code 422, with neither name typed.
C30_FormFilledOnlyWithTwoInputs ==
  [][\A r \in Requests :
       /\ run'[r].pc = "fill_names" =>
            /\ run'[r].first_name_input # None /\ run'[r].last_name_input # None
            /\ run'[r].first_name_input # run'[r].last_name_input
       /\ "names_typed" \in run'[r].observed /\ "names_typed" \notin run[r].observed =>
            /\ run[r].first_name_input # None /\ run[r].last_name_input # None
            /\ run[r].first_name_input # run[r].last_name_input
       /\ run[r].pc = "find_name_inputs" /\ run[r].attempt = NameMaxAttempts /\ run'[r] # run[r] /\ run'[r] # Elapse(run[r], TRUE) =>
            /\ run'[r].pc = "except" /\ run'[r].exc = Some(AssertionFailedException("register_form"))
            /\ run'[r].exc[1].code = 422 /\ "names_typed" \notin run'[r].observed]_vars

\* C23: the state label of a pending already-exists error is the state the
\* run was in when the existing-account signal was detected, which is still
\* its state while the error travels to the except clause of execute().
C23_ExistsErrorCarriesStateAtDetection ==
  \A r \in Requests : run[r].pc = "except" /\ run[r].exc[1].type = "EmailExistsException" => run[r].exc[1].state = run[r].state

\* C29: branch detection probes at most BranchMaxAttempts (10) times; once
\* that many probes saw none of the three signals the next thing the run does
\* is fail with the assertion error, code 422, labelled with its current
\* state, and a run with that error pending entered neither BRANCH_DETECTED
\* nor REGISTER_FORM.
C29_NoSignalIsAssertionError ==
  [][\A r \in Requests :
       /\ run[r].pc = "detect_branch" => run[r].attempt <= BranchMaxAttempts
       /\ run[r].pc = "detect_branch" /\ run'[r].pc = "detect_branch" /\ run'[r].attempt # run[r].attempt =>
            run'[r].attempt = run[r].attempt + 1 /\ run'[r].probe # None /\ BranchSignal(run'[r].probe[1]) = "none"
       /\ run[r].pc = "detect_branch" /\ run[r].attempt = BranchMaxAttempts /\ run'[r] # run[r] /\ run'[r] # Elapse(run[r], TRUE) =>
            /\ run'[r].pc = "except" /\ run'[r].exc = Some(AssertionFailedException("email_entered"))
            /\ run'[r].exc[1].code = 422 /\ run'[r].state = "email_entered"
       /\ FullRecord(r)' /\ run'[r].exc = Some(AssertionFailedException("email_entered")) =>
            ~Entered(r, "branch_detected")' /\ ~Entered(r, "register_form")']_vars

\* C29 witness: with time left on the budget, ten probes saw no signal and
\* the run left execute() with the assertion error
C29_Witness ==
  \E r \in Requests : ExecuteExited(r) /\ ~run[r].late /\ run[r].exc = Some(AssertionFailedException("email_entered"))
                        /\ run[r].probe = Some([password |-> FALSE, keyword |-> FALSE, name_inputs |-> FALSE])
                        /\ run[r].state = "failed" /\ ~Entered(r, "branch_detected")

\* the request holds the permit: it was admitted and has not released the lock
HoldsPermit(r) == InExecute(r) \/ ExecuteExited(r)

\* C24: a request rejected as busy gets status 503 and nothing else: no
\* AutoRegister is created for it (no state, no mailbox, no browser session),
\* the lock stays held by the request that holds it, and no other request's
\* record changes; a rejected request stays as it is.
C24_RejectionTouchesNothing ==
  [][\A r \in Requests :
       /\ run[r].pc = "idle" /\ run'[r].status = 503 =>
            /\ run'[r] = Returned(503) /\ run'[r].state = "-" /\ run'[r].account = None /\ run'[r].opened = 0
            /\ lock /\ lock'
            /\ \E q \in Requests \ {r} : HoldsPermit(q) /\ HoldsPermit(q)'
            /\ \A q \in Requests \ {r} : run'[q] = run[q]
       /\ run[r].status = 503 => run[r] = Returned(503) /\ run'[r] = run[r]]_vars

\* C24 witness: a request was rejected while another, with its mailbox and
\* browser session, is polling and still holds the lock
C24_Witness ==
  \E r, q \in Requests : run[r] = Returned(503) /\ lock /\ run[q].pc = "poll" /\ run[q].driver = "open" /\ run[q].state = "waiting_email"

\* C25: while a run is inside execute() no other request has a browser
\* session open, and at most one browser session is open at any time.
C25_OneBrowserSessionAlive ==
  /\ \A r, q \in Requests : r # q /\ InExecute(r) => run[q].driver = "none"
  /\ Cardinality({ r \in Requests : run[r].driver = "open" }) <= 1

\* C39: when _find_name_inputs has returned two inputs, they are two
\* different elements of the page, so the two names go into different fields.
C39_NameInputsAreDistinct ==
  \A r \in Requests : run[r].pc = "fill_names" /\ run[r].first_name_input # None /\ run[r].last_name_input # None =>
    run[r].first_name_input # run[r].last_name_input

\* the password inputs the search finds on the page, as a set of ids
FoundIds(inputs) == { FindPasswordInputs[inputs][i].id : i \in 1..Len(FindPasswordInputs[inputs]) }

\* the inputs the step works with: those of the first search, else those of the retry
FoundOnLoad(load) == IF FoundIds(load[1]) # {} THEN FoundIds(load[1]) ELSE FoundIds(load[2])

LiveSubmits(buttons) == { buttons[i].id : i \in { j \in 1..Len(buttons) : buttons[j].tag = "button" /\ buttons[j].type = "submit" /\ buttons[j].displayed /\ buttons[j].enabled } }

\* a visible and enabled button or role=button element with a continue text
LiveTextButtons(buttons) == { buttons[i].id : i \in { j \in 1..Len(buttons) : buttons[j].displayed /\ buttons[j].enabled /\ HasContinueText[buttons[j].id] } }

\* what holds of every call of the continue-control finder: one click per
\* call that returns; a call that finds no control raises the assertion error
\* (code 422) labelled with the state the run is still in
ContinueCallOutcome(r) ==
  LET call == run[r].continue_call[1]
  IN /\ ~call.did.raised => Len(call.did.clicked) = 1
     /\ LiveSubmits(call.page.buttons) = {} /\ LiveTextButtons(call.page.buttons) = {} => call.did.raised
     /\ call.did.raised =>
          /\ call.did.clicked = <<>>
          /\ run[r].exc = Some(AssertionFailedException(run[r].state)) /\ run[r].exc[1].code = 422
          /\ run[r].state \in {"login_entry", "register_form", "set_password"}
          /\ run[r].visited[Len(run[r].visited)] = run[r].state

\* C36: _click_continue_button clicks a visible, enabled submit-typed button
\* when one exists and consults the text fallback only when none exists; one
\* control is clicked per successful call, and a call that finds no control
\* raises the assertion error and leaves the state where it was.
C36_SubmitFirstTextOnlyWithout ==
  \A r \in Requests : InExecute(r) /\ run[r].continue_call # None =>
    LET call == run[r].continue_call[1]
    IN /\ LiveSubmits(call.page.buttons) # {} => ~call.did.raised /\ call.did.clicked[1] \in LiveSubmits(call.page.buttons)
       /\ call.did.fallback => LiveSubmits(call.page.buttons) = {}
       /\ ContinueCallOutcome(r)

\* C36, amended: as above when no browser call of the submit attempt raises;
\* when one raises, the exception is swallowed and the text fallback is
\* consulted although a submit button exists.
C36_SubmitFirstTextOnlyWithout_Amended ==
  \A r \in Requests : InExecute(r) /\ run[r].continue_call # None =>
    LET call == run[r].continue_call[1]
    IN /\ LiveSubmits(call.page.buttons) # {} /\ ~call.page.raises => ~call.did.raised /\ call.did.clicked[1] \in LiveSubmits(call.page.buttons)
       /\ call.did.fallback <=> (LiveSubmits(call.page.buttons) = {} \/ call.page.raises)
       /\ call.did.fallback /\ ~call.did.raised => call.did.clicked[1] \in LiveTextButtons(call.page.buttons)
       /\ ContinueCallOutcome(r)

\* a page with a text button ahead of a live submit button: the submit button
\* was clicked and the email step went on
C36_Witness ==
  \E r \in Requests :
    /\ run[r].pc = "detect_branch" /\ run[r].continue_call # None
    /\ run[r].continue_call[1].page = [buttons |-> <<ContinueButtons.t, ContinueButtons.s>>, raises |-> FALSE]
    /\ run[r].continue_call[1].did.clicked = <<"s">>

\* C32: in the verify-login step a first wait for the user-info object that
\* times out is followed by exactly one refresh and exactly one more wait,
\* the step fails with the assertion error exactly if that wait times out
\* too, and a first wait that succeeds is followed by no refresh.
C32_OneRefreshOneRetry ==
  \A r \in Requests : run[r].pc = "except" /\ run[r].verify_call # None =>
    LET call == run[r].verify_call[1]
    IN /\ call.user_info[1] = "timeout" => call.refreshes = 1 /\ call.waits = 2
       /\ call.user_info[1] = "appears" => call.refreshes = 0 /\ call.waits = 1
       /\ run[r].exc = Some(AssertionFailedException("verify_login")) <=> call.user_info = <<"timeout", "timeout">>

\* C33: _wait_for_confirmation_link makes at most EMAIL_POLL_MAX_ATTEMPTS
\* list calls; every attempt that resolved no link, one whose list call
\* raised included, is followed by one sleep; the attempt that resolves a
\* link ends the polling, and no list call is made after it.
C33_ListThenSleepUntilLink ==
  [][\A r \in Requests :
       /\ run'[r].pc = "poll" => run'[r].lists <= EMAIL_POLL_MAX_ATTEMPTS /\ run'[r].sleeps = run'[r].lists
       /\ run[r].pc = "poll" /\ run'[r].pc = "poll" /\ run'[r] # run[r] /\ run'[r] # Elapse(run[r], TRUE) =>
            run'[r].lists = run[r].lists + 1 /\ run'[r].sleeps = run[r].sleeps + 1 /\ run'[r].confirmation_link = None
       /\ run[r].pc = "poll" /\ run'[r].confirmation_link # None =>
            run'[r].pc # "poll" /\ run[r].lists < EMAIL_POLL_MAX_ATTEMPTS
       /\ run[r].pc # "poll" /\ run[r].confirmation_link # None => run'[r].pc # "poll"]_vars

\* the run has made its last list call and slept after each of them
C33_Witness ==
  \E r \in Requests : run[r].pc = "poll" /\ run[r].lists = EMAIL_POLL_MAX_ATTEMPTS /\ run[r].sleeps = EMAIL_POLL_MAX_ATTEMPTS

C40_AdmittedRunEndsAndFreesPermit ==
  /\ \A r \in Contenders : InExecute(r) ~> (run[r].pc \in {"finally_cleanup", "returned"} /\ run[r].releases = 1 /\ run[r].state \in {"complete", "failed"})
  /\ [](lock => \E r \in Requests : HoldsPermit(r))
  /\ [][\A r \in Requests : run[r].pc = "idle" /\ run'[r].pc # "idle" /\ (\A q \in Requests \ {r} : ~HoldsPermit(q)) => run'[r].pc = "init_duckmail"]_vars

\* the run of one request has ended in FAILED and released the lock, and
\* a second request has been admitted after it
C40_Witness ==
  \E r, q \in Requests : r # q /\ run[r].pc = "returned" /\ run[r].state = "failed" /\ run[r].releases = 1 /\ InExecute(q) /\ lock

(***************************************************************************)
(* Properties of the two polling loops (SpecPoll).                         *)
(***************************************************************************)
\* the listing contains a message with this id
Lists(listing, id) == listing # None /\ \E i \in 1..Len(listing[1]) : listing[1][i].id = id

\* C10: in both polling loops the predicate is evaluated at most once per
\* message id, and while the call lasts the set of seen ids only grows.
C10_PredicateOncePerId ==
  [][/\ \A id \in MsgIds : mp'.evals[id] <= 1 /\ run'[1].evals[id] <= 1
     /\ mp.seen_ids \subseteq mp'.seen_ids
     /\ run'[1].pc = "poll" => run[1].seen_ids \subseteq run'[1].seen_ids]_vars

\* C10 witness: two successive listings held id "2", both loops have read
\* both and each evaluated the predicate on it once
C10_Witness ==
  /\ Lists(mp.script[1], "2") /\ Lists(mp.script[2], "2")
  /\ mp.polls = 2 /\ mp.evals["2"] = 1 /\ "2" \in mp.seen_ids
  /\ run[1].pc = "poll" /\ run[1].attempt = 2 /\ run[1].evals["2"] = 1 /\ "2" \in run[1].seen_ids

\* the listings the run has read so far (all of them, once it has left the
\* loop) held a summary with this id that satisfies the verification predicate
ListedAsVerification(id) ==
  \E k \in 1..(IF run[1].pc = "poll" THEN run[1].lists ELSE MaxPolls) : mp.script[k] # None /\ \E i \in 1..Len(mp.script[k][1]) : mp.script[k][1][i].id = id /\ IsVerificationEmail[mp.script[k][1][i]]

\* C34: within one run get_message is requested at most once per message id,
\* and only for an id that a listing gave with a summary satisfying the
\* verification predicate.
C34_DetailOncePerVerificationId ==
  \A id \in MsgIds :
    /\ run[1].fetched[id] <= 1
    /\ run[1].fetched[id] = 1 => ListedAsVerification(id)

\* two successive listings held the verification mail "1", the detail request
\* of the first attempt gave no link, and no second request was made
C34_Witness ==
  /\ run[1].pc = "poll" /\ run[1].lists = 2 /\ run[1].fetched["1"] = 1
  /\ ListedAsVerification("1") /\ Lists(mp.script[1], "1") /\ Lists(mp.script[2], "1")

\* the mailbox listed id as a verification mail in the listing the run read last
ListedLast(id) ==
  /\ run[1].lists >= 1 /\ mp.script[run[1].lists] # None
  /\ \E i \in 1..Len(mp.script[run[1].lists][1]) : mp.script[run[1].lists][1][i].id = id /\ IsVerificationEmail[mp.script[run[1].lists][1][i]]

\* C38: a verification mail whose detail request raised is not lost: after an
\* attempt in which the mail was listed again and the mailbox had its detail
\* with a confirmation link to give, the run has resolved the link and is
\* no longer polling.
C38_FailedFetchIsRetried ==
  run[1].pc = "poll" =>
    ~ \E id \in run[1].fetch_raised :
        ListedLast(id) /\ run[1].offered # None /\ run[1].offered[1][id] # None /\ LinkOf[run[1].offered[1][id][1]] # None

(***************************************************************************)
(* Properties of the confirmation-link extractor (SpecLink).               *)
(***************************************************************************)
IsHttpUrl(u) == StartsWith(Lower(u), "http://") \/ StartsWith(Lower(u), "https://")

ReferencesStaticAsset(u) == \E ext \in {".png", ".jpg", ".gif", ".css", ".js"} : Contains(Lower(u), ext)

\* the pieces name=value of the URL's query whose name is literally name and whose value is not empty
RawParams(url, name) == SelectSeq(Split(UrlQuery(url), "&"), LAMBDA nv : StartsWith(nv, name \o "=") /\ Len(nv) > Len(name) + 1)

CarriesCcUrl(url) == RawParams(url, "ccUrl") # <<>> \/ RawParams(url, "ccurl") # <<>>

\* the value of the ccUrl (else ccurl) parameter exactly as written in the URL
RawCcValue(url) == LET nv == IF RawParams(url, "ccUrl") # <<>> THEN RawParams(url, "ccUrl")[1] ELSE RawParams(url, "ccurl")[1] IN SubSeq(nv, 7, Len(nv))

\* C6: every link extract_confirmation_link returns has scheme http or https.
C6_ReturnsOnlyHttpLinks == lx.pc = "returned" /\ lx.result # None => IsHttpUrl(lx.result[1])

\* C7: when the selected candidate carries ccUrl/ccurl and the value decoded
\* once starts with http, the returned link is the value decoded exactly once.
C7_DecodedExactlyOnce ==
  lx.pc = "returned" /\ lx.original_link # None /\ CarriesCcUrl(lx.original_link[1]) /\ StartsWith(Unquote(RawCcValue(lx.original_link[1])), "http")
    => lx.result = Some(Unquote(RawCcValue(lx.original_link[1])))

\* C8: when the selected candidate's ccUrl value decoded once does not start
\* with http, the original undecoded candidate is returned.
C8_MalformedCcUrlKeepsOriginal ==
  lx.pc = "returned" /\ lx.original_link # None /\ CarriesCcUrl(lx.original_link[1]) /\ ~StartsWith(Unquote(RawCcValue(lx.original_link[1])), "http")
    => lx.result = lx.original_link

\* the collected URLs hold no whitelisted link and nothing but non-http or static-asset URLs
OnlyUnusableUrls(all_urls) == \A i \in 1..Len(all_urls) : ~is_verification_link(all_urls[i]) /\ (~StartsWith(all_urls[i], "http") \/ ReferencesStaticAsset(all_urls[i]))

\* C9: if no collected URL is whitelisted and every collected URL is non-http
\* or a static asset, extract_confirmation_link returns none.
C9_NoUsableLinkReturnsNone == lx.pc = "returned" /\ OnlyUnusableUrls(lx.all_urls) => lx.result = None

\* C9 witness: a returned call that collected URLs, all of them unusable
C9_Witness == lx.pc = "returned" /\ lx.all_urls # <<>> /\ OnlyUnusableUrls(lx.all_urls) /\ lx.result = None /\ \E i \in 1..Len(lx.all_urls) : StartsWith(lx.all_urls[i], "http")

(***************************************************************************)
(* Properties of the mailbox client (SpecClient).                          *)
(***************************************************************************)
\* the client has an account and a token for it
HasToken(c) == c.account # None /\ c.token

\* C18: no list-messages or get-message request goes out before a token was
\* obtained: both calls raise without sending when no token is set; get_token
\* fails when no account exists; and a run at or after MAILBOX_CREATED has
\* its token.
C18_NoMailRequestBeforeToken ==
  [][/\ dc' # dc /\ dc'.last.op \in {"list_messages", "get_message"} /\ ~HasToken(dc.client) => dc'.last.raised # None /\ ~dc'.last.sent
     /\ dc' # dc /\ dc'.last.op = "get_token" /\ dc.client.account = None => dc'.last.raised # None
     /\ \A r \in Requests : FullRecord(r)' /\ Entered(r, "duckmail_created")' => run'[r].token /\ run'[r].account # None]_vars

\* C18 as amended: as C18, but get_token is only said to fail for want of an
\* account when it is called without an address, and then it sends nothing.
C18_NoMailRequestBeforeToken_Amended ==
  [][/\ dc' # dc /\ dc'.last.op \in {"list_messages", "get_message"} /\ ~HasToken(dc.client) => dc'.last.raised = Some("ValueError") /\ ~dc'.last.sent
     /\ dc' # dc /\ dc'.last.op \in {"list_messages", "get_message"} /\ dc'.last.sent => HasToken(dc.client)
     /\ dc' # dc /\ dc'.last.op = "get_token" /\ dc'.last.address = None /\ dc.client.account = None => dc'.last.raised = Some("ValueError") /\ ~dc'.last.sent
     /\ \A r \in Requests : FullRecord(r)' /\ Entered(r, "duckmail_created")' => run'[r].token /\ run'[r].account # None]_vars

\* C18 witness: a listing was refused unsent on a client that has an account
\* but no token, while a run that has its token is polling
C18_Witness ==
  /\ dc.last.op = "list_messages" /\ dc.last.raised = Some("ValueError") /\ ~dc.last.sent /\ dc.client.account # None /\ ~dc.client.token
  /\ run[1].pc = "poll" /\ run[1].attempt > 0 /\ run[1].token

(***************************************************************************)
(* Properties of MailPoller on listing errors (SpecPoll).                  *)
(***************************************************************************)
\* C20: a round of wait_for_verification_email whose listing call raised
\* does not end the poll, yields no result and leaves the seen ids (and the
\* evaluations made) as they were; the poller goes on to the next round.
C20_ListingErrorIsNotFatal ==
  [][mp.pc = "polling" /\ mp'.polls = mp.polls + 1 /\ mp.script[mp.polls + 1] = None =>
       mp'.pc = "polling" /\ mp'.result = None /\ mp'.seen_ids = mp.seen_ids /\ mp'.evals = mp.evals]_vars

\* C20 witness: the first listing call raised, the poller listed again and found the verification mail
C20_Witness == mp.pc = "returned" /\ mp.polls = 2 /\ mp.script[1] = None /\ mp.script[2] # None /\ mp.result # None

(***************************************************************************)
(* Properties of the verification-mail predicate (SpecMatch).              *)
(***************************************************************************)
\* a and b are the same string up to the case of their letters
EqualIgnoringCase(a, b) == Len(a) = Len(b) /\ \A i \in 1..Len(a) : LowerChar(Char(a, i)) = LowerChar(Char(b, i))

\* the list in force when the argument is given or left out
ListInForce(arg, default) == IF arg = None THEN default ELSE arg[1]

\* the sender of the call equals, ignoring case, an entry of the whitelist in force
SenderWhitelisted ==
  \E i \in 1..Len(ListInForce(ve.sender_whitelist, VERIFICATION_SENDERS)) :
    EqualIgnoringCase(ve.message.from_address, ListInForce(ve.sender_whitelist, VERIFICATION_SENDERS)[i])

\* some pattern of the list in force occurs, ignoring case, in the subject of the call
SubjectMatched ==
  \E i \in 1..Len(ListInForce(ve.subject_patterns, DEFAULT_SUBJECT_PATTERNS)) :
    LET pat == ListInForce(ve.subject_patterns, DEFAULT_SUBJECT_PATTERNS)[i]
    IN \E k \in 1..(Len(ve.message.subject) - Len(pat) + 1) : EqualIgnoringCase(SubSeq(ve.message.subject, k, k + Len(pat) - 1), pat)

\* C21: is_verification_email returns true exactly when the sender equals,
\* ignoring case, an entry of the sender whitelist or the subject matches,
\* ignoring case, a pattern of the subject-pattern list.
C21_MatchIffSenderOrSubject == ve.pc = "returned" => (ve.result <=> SenderWhitelisted \/ SubjectMatched)

\* C21 witness: a mail accepted for its sender alone, written in another case than the whitelist entry
C21_Witness == ve.pc = "returned" /\ ve.result /\ SenderWhitelisted /\ ~SubjectMatched /\ ve.message.from_address = "NoReply@Chayns.DE"

(***************************************************************************)
(* Properties of the candidate selection of the extractor (SpecLink).      *)
(***************************************************************************)
\* the position of the first element of seq that passes Test, 0 when none does
FirstWhere(seq, Test(_)) ==
  IF \E i \in 1..Len(seq) : Test(seq[i]) THEN CHOOSE i \in 1..Len(seq) : Test(seq[i]) /\ \A j \in 1..(i - 1) : ~Test(seq[j]) ELSE 0

\* the URL starts with http and references no static-asset extension
UsableHttpUrl(u) == StartsWith(u, "http") /\ ~ReferencesStaticAsset(u)

\* C26: the candidate selected is the first collected URL that matches the
\* verification-link whitelist, whatever precedes it; only when no collected
\* URL matches the whitelist is it the first collected URL that starts with
\* http and references no static asset; when there is neither, none.
C26_FirstWhitelistedElseFirstHttp ==
  lx.pc = "returned" =>
    IF FirstWhere(lx.all_urls, is_verification_link) # 0 THEN lx.original_link = Some(lx.all_urls[FirstWhere(lx.all_urls, is_verification_link)])
    ELSE IF FirstWhere(lx.all_urls, UsableHttpUrl) # 0 THEN lx.original_link = Some(lx.all_urls[FirstWhere(lx.all_urls, UsableHttpUrl)])
    ELSE lx.original_link = None

\* C26 witness: a plain http link comes first, the whitelisted link second, and the second was selected
C26_Witness ==
  /\ lx.pc = "returned" /\ Len(lx.all_urls) = 2
  /\ UsableHttpUrl(lx.all_urls[1]) /\ ~is_verification_link(lx.all_urls[1])
  /\ is_verification_link(lx.all_urls[2]) /\ lx.original_link = Some(lx.all_urls[2])

\* C27: the URLs of the plain-text body are collected only when the HTML
\* fragments gave no href; with at least one href the collected URLs are the
\* hrefs and the result is the same whatever the plain-text body holds.
C27_TextOnlyWithoutHrefs ==
  lx.pc = "returned" =>
    IF AllHrefs(lx.email_detail.html) = <<>> THEN lx.all_urls = extract_urls_from_text(lx.email_detail.text)
    ELSE /\ lx.all_urls = AllHrefs(lx.email_detail.html)
         /\ lx.result = SelectAndResolve(VerificationLinks(AllHrefs(lx.email_detail.html)))
         /\ (\A i \in 1..Len(lx.all_urls) : ~is_verification_link(lx.all_urls[i]) /\ ~UsableHttpUrl(lx.all_urls[i])) => lx.result = None

\* C27 witness: the only href is a static asset, the plain-text body holds
\* the verification link, and none was returned
C27_Witness ==
  /\ lx.pc = "returned" /\ AllHrefs(lx.email_detail.html) = <<"https://cdn.test/logo.png">>
  /\ lx.email_detail.text = "visit https://chayns.cc/login1?code=zz now" /\ lx.result = None

(***************************************************************************)
(* Properties of what MailPoller returns (SpecPoll).                       *)
(***************************************************************************)
\* C28: wait_for_verification_email returns a message only from the listing
\* of the round just made, and it is the first one there that was not seen
\* earlier in the call and satisfies the predicate; it returns the no-match
\* value only once the timeout has elapsed.
C28_FirstUnseenMatchOrTimeout ==
  [][mp.pc = "polling" /\ mp'.pc = "returned" =>
       IF mp'.result = None THEN mp.expired
       ELSE /\ mp'.polls = mp.polls + 1 /\ mp.script[mp.polls + 1] # None /\ IsVerificationEmail[mp'.result[1]]
            /\ LET listing == mp.script[mp.polls + 1][1]
               IN \E i \in 1..Len(listing) :
                    /\ listing[i] = mp'.result[1] /\ listing[i].id \notin mp.seen_ids
                    /\ \A j \in 1..(i - 1) : listing[j].id \in mp.seen_ids \/ ~IsVerificationEmail[listing[j]]]_vars

\* C28 witness: the second round listed the other mail, seen in the first
\* round, ahead of the verification mail, and the verification mail was returned
C28_Witness ==
  /\ mp.pc = "returned" /\ mp.polls = 2 /\ mp.result # None /\ IsVerificationEmail[mp.result[1]]
  /\ mp.script[1] # None /\ Len(mp.script[1][1]) = 1 /\ ~IsVerificationEmail[mp.script[1][1][1]]
  /\ mp.script[2] # None /\ Len(mp.script[2][1]) = 2 /\ mp.script[2][1][1] = mp.script[1][1][1] /\ mp.script[2][1][2] = mp.result[1]

(***************************************************************************)
(* Properties of the two ways to a confirmation link (SpecResolve).        *)
(***************************************************************************)
\* get_confirmation_link has returned and its poller was not cut short by
\* its timeout before it had read the listings
PollerResolved == mp.pc = "resolved" /\ (mp.result # None \/ mp.polls = MaxPolls)

\* the loop of the run has resolved a link or has read the listings without one
RunResolved == run[1].pc = "set_password" \/ (run[1].pc = "poll" /\ run[1].attempt = MaxPolls)

\* C37: on the same listings and the same message details the loop of the
\* run and MailPoller.get_confirmation_link resolve the same confirmation
\* link, or both none.
C37_BothLoopsResolveTheSameLink ==
  PollerResolved /\ RunResolved => run[1].confirmation_link = mp.link

====
